---- MODULE Spec2Model ----
(***************************************************************************)
(* danger-transcode: the incremental transcode job engine.                 *)
(*                                                                         *)
(* Several state machines share this module.                               *)
(*   SpecLock  the singleton lock of src/src/process.ts, taken and         *)
(*             released by several operating-system processes whose        *)
(*             system calls interleave freely.                             *)
(*   SpecRun   consecutive runs of main() (src/src/main.ts) over a small   *)
(*             media library: load the job store, filter and analyse the   *)
(*             discovered files, run transcodeFile (src/unnamed/part_001)  *)
(*             step by step against a file system, update and save the     *)
(*             store.                                                      *)
(*   SpecJob   one run of main() under every output configuration, with    *)
(*             the full budget of I/O faults in the replace sequence.      *)
(*   SpecSched one run's scheduler: runWithConcurrency over a list of      *)
(*             jobs with the Semaphore, processFile's store update and     *)
(*             checkpoint, and the signal handler; SpecCkpt is the same    *)
(*             machine over a longer list.                                 *)
(*   SpecDisc  discoverMediaFiles over the configured media roots.         *)
(*   SpecCall  one call of one function of the scanner, the analysis       *)
(*             cache or the FFmpeg argument builder on one input.          *)
(***************************************************************************)
EXTENDS Integers, Sequences, FiniteSets, TLC

(***************************************************************************)
(* Bounds of the model.                                                    *)
(***************************************************************************)
NumProcs == 2

Procs == 1..NumProcs

\* An inode is live while the lock path links it or a descriptor refers to it;
\* a process that creates one holds no descriptor, so NumProcs inodes suffice.
Inodes == 1..NumProcs

NoInode == 0

NoProc == 0

VARIABLES
    \* ---- singleton lock (process.ts) ----
    lpc,        \* lpc[p]: position of process p in main/acquireLock/releaseLock
    lockPath,   \* inode the lock file path links to, NoInode when absent
    lockFile,   \* lockFile[p]: the module-level handle of p (inode), NoInode = null
    flock,      \* flock[i]: process holding the exclusive advisory lock on inode i
    content,    \* content[i]: text stored in inode i (NoProc = empty)
    contended,  \* contended[p]: a holder owned the lock when p called lock()
    worked      \* worked[p]: p loaded the job store / scanned / encoded

lockVars == <<lpc, lockPath, lockFile, flock, content, contended, worked>>

VARIABLES
    \* ---- consecutive runs of main() ----
    rpc,        \* position of main(): "idle" between runs, "loaded", "jobs"
    runs,       \* number of runs started so far
    cfg,        \* the validated settings object of the installation
    db,         \* the in-memory job store of the current run
    disk,       \* the persisted job store document
    fs,         \* the file system: path -> content
    queue,      \* scanResult.toTranscode of the current run
    idx,        \* index of the job being processed
    job,        \* transcodeFile's locals for the job being processed
    faultsLeft, \* I/O faults the environment may still inject
    runLimit,   \* number of times the operator starts the program
    hist        \* observations of the current run and of earlier runs

runVars == <<rpc, runs, cfg, db, disk, fs, queue, idx, job, faultsLeft, runLimit, hist>>

VARIABLES
    \* ---- one run's scheduler: runWithConcurrency (process.ts) ----
    spc,            \* position of main(): "map", "await", "save", "exited"
    maxConcurrency, \* config.maxConcurrency
    items,          \* scanResult.toTranscode: items[k] = base name of the file
    mapped,         \* number of items whose map callback has been invoked
    semaphore,      \* the Semaphore: [permits, waitQueue]
    microtasks,     \* continuations of "await semaphore.acquire()" ready to run
    tpc,            \* tpc[k]: position of the task of item k
    store,          \* the in-memory job store: outcome recorded per item
    saved,          \* the persisted job store document
    snap,           \* snap[k]: the document task k's saveDatabase is writing
    temp,           \* temp[b]: task whose output the temporary file of name b holds
    exitCode,       \* process exit status, NoExit while running
    locked,         \* the singleton lock is held by this process
    signalled,      \* the process exited from the signal handler
    schedFaults,    \* store / temp-dir I/O faults the environment may still inject
    startOrder      \* task indexes in the order their pipelines started

schedVars == <<spc, maxConcurrency, items, mapped, semaphore, microtasks, tpc,
               store, saved, snap, temp, exitCode, locked, signalled,
               schedFaults, startOrder>>

\* schedVars without the lock, which main() takes and gives back in the run
\* machine as well.
schedOther == <<spc, maxConcurrency, items, mapped, semaphore, microtasks, tpc,
                store, saved, snap, temp, exitCode, signalled, schedFaults,
                startOrder>>

VARIABLES
    \* ---- discovery (scanner.ts) ----
    dpc,        \* position of discoverMediaFiles: "roots", "done", "thrown"
    mediaDirs,  \* config.mediaDirs
    dirState,   \* dirState[d]: what stat and readDir do on directory d
    fileState,  \* fileState[d]: what stat does on the video file of directory d
    rootIdx,    \* index of the media root the loop is at
    resultFiles, \* result.files, in the order pushed
    skippedDirs \* result.skippedDirs

discVars == <<dpc, mediaDirs, dirState, fileState, rootIdx, resultFiles,
              skippedDirs>>

VARIABLES
    \* ---- one call of a function of the scanner, the analysis cache or the
    \* ---- FFmpeg argument builder ----
    cpc,        \* position: "idle", "call" before the call, "done" after it
    env,        \* the arguments of the call and the state it reads
    ret         \* the value the call returned

callVars == <<cpc, env, ret>>

vars == <<lockVars, runVars, schedVars, discVars, callVars>>

\* No call is under way.
CallIdle ==
    /\ cpc = "idle"
    /\ env = <<>>
    /\ ret = <<>>

\* No discovery is running.
DiscIdle ==
    /\ dpc = "idle"
    /\ mediaDirs = <<>>
    /\ dirState = <<>>
    /\ fileState = <<>>
    /\ rootIdx = 0
    /\ resultFiles = <<>>
    /\ skippedDirs = <<>>

NoExit == 0 - 1

\* No scheduler is running.
SchedIdle ==
    /\ spc = "exited"
    /\ maxConcurrency = 1
    /\ items = <<>>
    /\ mapped = 0
    /\ semaphore = [permits |-> 1, waitQueue |-> <<>>]
    /\ microtasks = <<>>
    /\ tpc = <<>>
    /\ store = <<>>
    /\ saved = <<>>
    /\ snap = <<>>
    /\ temp = <<>>
    /\ exitCode = NoExit
    /\ locked = FALSE
    /\ signalled = FALSE
    /\ schedFaults = 0
    /\ startOrder = <<>>

(***************************************************************************)
(* Singleton lock.                                                         *)
(***************************************************************************)

\* acquireLock returned true and releaseLock has not started.
Holds(p) == lpc[p] \in {"held", "ran"}

InodeLive(i) == lockPath = i \/ \E p \in Procs : lockFile[p] = i

FreshInode == CHOOSE i \in Inodes : ~InodeLive(i) /\ \A j \in Inodes : ~InodeLive(j) => i <= j

\* The text of an inode that nothing links or has open is gone with it.
Reclaim(path, files, text) ==
    [i \in Inodes |-> IF path = i \/ \E p \in Procs : files[p] = i THEN text[i] ELSE NoProc]

LockInit ==
    /\ lpc = [p \in Procs |-> "idle"]
    /\ lockPath = NoInode
    /\ lockFile = [p \in Procs |-> NoInode]
    /\ flock = [i \in Inodes |-> NoProc]
    /\ content = [i \in Inodes |-> NoProc]
    /\ contended = [p \in Procs |-> FALSE]
    /\ worked = [p \in Procs |-> FALSE]

\* main() reaches acquireLock (main.ts:168); ensureDir has run (process.ts:23).
StartInstance(p) ==
    /\ lpc[p] = "idle"
    /\ lpc' = [lpc EXCEPT ![p] = "open"]
    /\ UNCHANGED <<lockPath, lockFile, flock, content, contended, worked, runVars, schedVars, discVars, callVars>>

\* Deno.open(path, {write, create, truncate}) (process.ts:26-30): opens the
\* inode the path links to, or creates one; either way its content is emptied.
OpenLockFile(p) ==
    /\ lpc[p] = "open"
    /\ LET i == IF lockPath = NoInode THEN FreshInode ELSE lockPath
       IN /\ lockPath' = i
          /\ lockFile' = [lockFile EXCEPT ![p] = i]
          /\ content' = [content EXCEPT ![i] = NoProc]
    /\ lpc' = [lpc EXCEPT ![p] = "lock"]
    /\ UNCHANGED <<flock, contended, worked, runVars, schedVars, discVars, callVars>>

\* Deno.open rejects (I/O error): outer catch, acquireLock returns false
\* (process.ts:48-51).
OpenLockFileFails(p) ==
    /\ lpc[p] = "open"
    /\ lpc' = [lpc EXCEPT ![p] = "refused"]
    /\ UNCHANGED <<lockPath, lockFile, flock, content, contended, worked, runVars, schedVars, discVars, callVars>>

\* lockFile.lock(true) is called (process.ts:34).  FsFile.lock is flock(2)
\* with LOCK_EX and without LOCK_NB: the call does not reject while another
\* descriptor owns the lock, it waits for it.
CallLock(p) ==
    /\ lpc[p] = "lock"
    /\ lpc' = [lpc EXCEPT ![p] = "locking"]
    /\ contended' = [contended EXCEPT ![p] =
                        \E q \in Procs \ {p} : Holds(q) /\ flock[lockFile[p]] = q]
    /\ UNCHANGED <<lockPath, lockFile, flock, content, worked, runVars, schedVars, discVars, callVars>>

\* The pending lock() resolves once no other descriptor owns the inode's lock.
LockGranted(p) ==
    /\ lpc[p] = "locking"
    /\ flock[lockFile[p]] = NoProc
    /\ flock' = [flock EXCEPT ![lockFile[p]] = p]
    /\ lpc' = [lpc EXCEPT ![p] = "write"]
    /\ UNCHANGED <<lockPath, lockFile, content, contended, worked, runVars, schedVars, discVars, callVars>>

\* lock() rejects (I/O error, e.g. a file system without lock support): inner
\* catch closes the handle and acquireLock returns false (process.ts:35-40).
LockRejects(p) ==
    /\ lpc[p] = "locking"
    /\ lockFile' = [lockFile EXCEPT ![p] = NoInode]
    /\ content' = Reclaim(lockPath, lockFile', content)
    /\ lpc' = [lpc EXCEPT ![p] = "refused"]
    /\ UNCHANGED <<lockPath, flock, contended, worked, runVars, schedVars, discVars, callVars>>

\* Write the PID at offset 0 and return true (process.ts:43-47).
WritePid(p) ==
    /\ lpc[p] = "write"
    /\ content' = [content EXCEPT ![lockFile[p]] = p]
    /\ lpc' = [lpc EXCEPT ![p] = "held"]
    /\ UNCHANGED <<lockPath, lockFile, flock, contended, worked, runVars, schedVars, discVars, callVars>>

\* acquireLock returned false: "Another instance is already running",
\* Deno.exit(1) (main.ts:168-171).  Process exit closes any descriptor.
ExitAlreadyRunning(p) ==
    /\ lpc[p] = "refused"
    /\ lockFile' = [lockFile EXCEPT ![p] = NoInode]
    /\ content' = Reclaim(lockPath, lockFile', content)
    /\ lpc' = [lpc EXCEPT ![p] = "exited"]
    /\ UNCHANGED <<lockPath, flock, contended, worked, runVars, schedVars, discVars, callVars>>

\* The run itself, between acquireLock and releaseLock (main.ts:183-365):
\* loadDatabase, scanMediaDirectories, the transcodes.
RunUnderLock(p) ==
    /\ lpc[p] = "held"
    /\ worked' = [worked EXCEPT ![p] = TRUE]
    /\ lpc' = [lpc EXCEPT ![p] = "ran"]
    /\ UNCHANGED <<lockPath, lockFile, flock, content, contended, runVars, schedVars, discVars, callVars>>

\* releaseLock: lockFile.unlock() (process.ts:60).
Unlock(p) ==
    /\ lpc[p] = "ran"
    /\ flock' = [flock EXCEPT ![lockFile[p]] = NoProc]
    /\ lpc' = [lpc EXCEPT ![p] = "close"]
    /\ UNCHANGED <<lockPath, lockFile, content, contended, worked, runVars, schedVars, discVars, callVars>>

\* releaseLock: lockFile.close(); lockFile = null (process.ts:61-62).
CloseLockFile(p) ==
    /\ lpc[p] = "close"
    /\ lockFile' = [lockFile EXCEPT ![p] = NoInode]
    /\ content' = Reclaim(lockPath, lockFile', content)
    /\ lpc' = [lpc EXCEPT ![p] = "remove"]
    /\ UNCHANGED <<lockPath, flock, contended, worked, runVars, schedVars, discVars, callVars>>

\* releaseLock: Deno.remove(path) unlinks whatever inode the path links to;
\* NotFound is caught and logged (process.ts:65-69).  main returns.
RemoveLockFile(p) ==
    /\ lpc[p] = "remove"
    /\ lockPath' = NoInode
    /\ content' = Reclaim(lockPath', lockFile, content)
    /\ lpc' = [lpc EXCEPT ![p] = "exited"]
    /\ UNCHANGED <<lockFile, flock, contended, worked, runVars, schedVars, discVars, callVars>>

\* The operator starts the program again: a new process instance.
StartAgain(p) ==
    /\ lpc[p] = "exited"
    /\ lpc' = [lpc EXCEPT ![p] = "idle"]
    /\ contended' = [contended EXCEPT ![p] = FALSE]
    /\ worked' = [worked EXCEPT ![p] = FALSE]
    /\ UNCHANGED <<lockPath, lockFile, flock, content, runVars, schedVars, discVars, callVars>>

LockNext ==
    \E p \in Procs :
        \/ StartInstance(p)
        \/ OpenLockFile(p)
        \/ OpenLockFileFails(p)
        \/ CallLock(p)
        \/ LockGranted(p)
        \/ LockRejects(p)
        \/ WritePid(p)
        \/ ExitAlreadyRunning(p)
        \/ RunUnderLock(p)
        \/ Unlock(p)
        \/ CloseLockFile(p)
        \/ RemoveLockFile(p)
        \/ StartAgain(p)

(***************************************************************************)
(* Runs of main(): the media library, the job store and the file system.   *)
(*                                                                         *)
(* I/O faults follow the error taxonomy of the design: the steps of the    *)
(* replace/move sequence (rename, copy, remove inside moveFile and         *)
(* replaceOriginalFile) may fail; the encoder may exit non-zero; a probe   *)
(* may fail.  Removing the job's own temporary file and stat'ing files     *)
(* that exist succeed; removing a file that does not exist raises          *)
(* NotFound.                                                               *)
(***************************************************************************)
RunFiles == 2

BatchFiles == 5

BatchRuns == 2

NumFiles == IF RunFiles > BatchFiles THEN RunFiles ELSE BatchFiles

MaxRuns == 4

MaxFaults == 2

RunFaults == 1

MaxSize == 4

\* "Save database periodically": (index + 1) % 5 === 0.
CheckpointEvery == 5

\* filterByDatabaseState: errorRecord.attempts >= 3.
MaxAttempts == 3

Files == 1..NumFiles

\* A path: directory root, sub-directory below it, base name, extension, and
\* whether '.backup' is appended.
Path(dir, sub, name, ext, bak) ==
    [dir |-> dir, sub |-> sub, name |-> name, ext |-> ext, bak |-> bak]

\* The library: media/a.mkv, media/s2/a.mp4, media/s3/a.mkv, ...
FilePath(f) ==
    Path("media", IF f = 1 THEN 0 ELSE f, "a", IF f % 2 = 1 THEN "mkv" ELSE "mp4", FALSE)

\* Size of the original content of file f.
InitialSize(f) == 1 + ((f - 1) % 2) + 1

NoFile == [kind |-> "none", size |-> 0]

Content(kind, size) == [kind |-> kind, size |-> size]

OutDirs == {"", "media", "out"}

Configs ==
    [override : {"unset", "inplace", "separate"},
     mode : {"in-place", "separate"},
     outDir : OutDirs,
     preserve : BOOLEAN,
     crossDevice : BOOLEAN,
     dryRun : {FALSE},
     \* how many entries of config.mediaDirs lead to the library
     rootCopies : {1}]

\* getTempOutputPath: join(tempDir, basename with extension '.transcoding.mkv').
getTempOutputPath(path) == Path("tmp", 0, path.name, "transcoding.mkv", FALSE)

\* shouldOutputInPlace: the per-file override wins, then config.output.mode.
shouldOutputInPlace(c) ==
    IF c.override # "unset" THEN c.override = "inplace" ELSE c.mode # "separate"

\* getFinalOutputPath: the input path in place; without an output directory
\* "using in-place", the input path again; otherwise the output directory,
\* mirroring the path below the media root when preserveStructure is set,
\* with the extension changed to mkv.
getFinalOutputPath(path, c) ==
    IF shouldOutputInPlace(c) THEN path
    ELSE IF c.outDir = "" THEN path
    ELSE Path(c.outDir, IF c.preserve THEN path.sub ELSE 0, path.name, "mkv", FALSE)

\* replaceOriginalFile: originalPath + '.backup'.
BackupPath(path) == [path EXCEPT !.bak = TRUE]

AllPaths ==
    {FilePath(f) : f \in Files} \cup {BackupPath(FilePath(f)) : f \in Files}
    \cup {getTempOutputPath(FilePath(f)) : f \in Files}
    \cup {getFinalOutputPath(FilePath(f), c) : f \in Files, c \in Configs}

\* ---- the job store (database.ts) ----
NoRecord == [present |-> FALSE, success |-> FALSE, originalSize |-> 0, newSize |-> 0, kept |-> FALSE]

EmptyDatabase == [records |-> [f \in Files |-> NoRecord], errors |-> [f \in Files |-> 0]]

\* isFileTranscoded: filePath in db.records && db.records[filePath].success.
isFileTranscoded(d, f) == d.records[f].present /\ d.records[f].success

\* getFileErrors(db, path): the attempts of the error record, 0 when absent.
getFileErrors(d, f) == d.errors[f]

\* addTranscodeRecord that stores the record and leaves the error record.
addTranscodeRecord_KeepsError(d, f, rec) ==
    [records |-> [d.records EXCEPT ![f] = rec], errors |-> d.errors]

\* addTranscodeRecord: store the record and delete the path's error record.
addTranscodeRecord(d, f, rec) ==
    [records |-> [d.records EXCEPT ![f] = rec],
     errors |-> [d.errors EXCEPT ![f] = 0]]

\* addErrorRecord that always writes a new record with attempts = 1.
addErrorRecord_Overwrites(d, f) == [d EXCEPT !.errors[f] = 1]

\* addErrorRecord: attempts += 1 on an existing record, else a new record
\* with attempts = 1.
addErrorRecord(d, f) ==
    [d EXCEPT !.errors[f] = IF d.errors[f] > 0 THEN d.errors[f] + 1 ELSE 1]

\* clearErrors / main.ts:206: db.errors = {}.
clearErrors(d) == [d EXCEPT !.errors = [f \in Files |-> 0]]

\* filterByDatabaseState without the isFileTranscoded test.
FilterVerdict_IgnoresDone(d, f) ==
    IF getFileErrors(d, f) >= MaxAttempts THEN "errors" ELSE "analyze"

\* filterByDatabaseState with attempts > 3 in place of attempts >= 3.
FilterVerdict_OneMore(d, f) ==
    IF isFileTranscoded(d, f) THEN "done"
    ELSE IF getFileErrors(d, f) > MaxAttempts THEN "errors"
    ELSE "analyze"

\* filterByDatabaseState, one file: "done", "errors" or "analyze".
FilterVerdict(d, f) ==
    IF isFileTranscoded(d, f) THEN "done"
    ELSE IF getFileErrors(d, f) >= MaxAttempts THEN "errors"
    ELSE "analyze"

\* filterByDatabaseState(files, db).toAnalyze, as the set of its paths.
toAnalyze(d, files) == {f \in files : FilterVerdict(d, f) = "analyze"}

\* ---- sequences ----
RECURSIVE InsertBySize(_, _, _)
\* Insert f into the list q, kept in descending order of sz, after equal keys.
InsertBySize(q, f, sz) ==
    IF q = <<>> THEN <<f>>
    ELSE IF sz[f] > sz[Head(q)] THEN <<f>> \o q
    ELSE <<Head(q)>> \o InsertBySize(Tail(q), f, sz)

RECURSIVE SortBySize(_, _)
\* toTranscode.sort((a, b) => b.size - a.size): stable, largest first.
SortBySize(q, sz) ==
    IF q = <<>> THEN <<>>
    ELSE InsertBySize(SortBySize(SubSeq(q, 1, Len(q) - 1), sz), q[Len(q)], sz)

RECURSIVE ListOf(_, _)
\* The members of the set S taken in discovery order 1, 2, ..., n.
ListOf(S, n) ==
    IF n = 0 THEN <<>>
    ELSE IF n \in S THEN Append(ListOf(S, n - 1), n) ELSE ListOf(S, n - 1)


\* ---- file system operations ----
\* Deno.rename(src, dst): dst is replaced when it exists.
Rename(files, src, dst) == [files EXCEPT ![dst] = files[src], ![src] = NoFile]

\* Deno.copyFile(src, dst).
Copy(files, src, dst) == [files EXCEPT ![dst] = files[src]]

\* Deno.remove(path).
Remove(files, path) == [files EXCEPT ![path] = NoFile]

\* ---- transcodeFile's locals ----
NoJob ==
    [pc |-> "idle", file |-> 0, path |-> FilePath(1), tmp |-> FilePath(1),
     final |-> FilePath(1), src |-> FilePath(1), dst |-> FilePath(1),
     inPlace |-> FALSE, code |-> -1, origStat |-> 0, newStat |-> 0,
     before |-> NoFile, backedUp |-> FALSE, restoreTried |-> FALSE,
     restoreOk |-> FALSE, result |-> "none"]

NoHist ==
    [loaded |-> EmptyDatabase, analyzed |-> {}, scheduled |-> {}, encoded |-> {},
     clean |-> [f \in Files |-> TRUE], op |-> "none", last |-> NoJob,
     errorsBefore |-> 0]

\* A library holding the first n files, each with its original content.
InitialFs(n) ==
    [p \in AllPaths |->
        IF \E f \in 1..n : p = FilePath(f)
        THEN Content("orig", InitialSize(CHOOSE f \in 1..n : p = FilePath(f)))
        ELSE NoFile]

RunInitWith(c, limit, faults, n) ==
    /\ rpc = "idle"
    /\ runs = 0
    /\ cfg = c
    /\ db = EmptyDatabase
    /\ disk = EmptyDatabase
    /\ fs = InitialFs(n)
    /\ queue = <<>>
    /\ idx = 0
    /\ job = NoJob
    /\ faultsLeft = faults
    /\ runLimit = limit
    /\ hist = NoHist

\* ---- main() ----
\* acquireLock (main.ts:167-171) and loadDatabase (main.ts:185): the lock is
\* held, the store is the persisted document or an empty one.
LoadDatabase ==
    /\ rpc = "idle"
    /\ runs < runLimit
    /\ runs' = runs + 1
    /\ locked' = TRUE
    /\ db' = disk
    /\ rpc' = "loaded"
    /\ hist' = [hist EXCEPT !.loaded = disk, !.analyzed = {}, !.scheduled = {},
                            !.encoded = {}, !.op = "load"]
    /\ UNCHANGED <<cfg, disk, fs, queue, idx, job, faultsLeft, runLimit, lockVars, schedOther, discVars, callVars>>

\* --clear-errors (main.ts:167-171, 185, 204-211): acquireLock, load,
\* db.errors = {}, saveDatabase, releaseLock, exit; config.dryRun is not read
\* on this path.
ClearErrorsRun ==
    /\ rpc = "idle"
    /\ runs < runLimit
    /\ runs' = runs + 1
    /\ locked' = FALSE
    /\ db' = clearErrors(disk)
    /\ disk' = db'
    /\ hist' = [hist EXCEPT !.loaded = disk, !.analyzed = {}, !.scheduled = {},
                            !.encoded = {}, !.op = "clear",
                            !.clean = [f \in Files |-> FALSE]]
    /\ UNCHANGED <<rpc, cfg, fs, queue, idx, job, faultsLeft, runLimit, lockVars, schedOther, discVars, callVars>>

\* discoverMediaFiles (scanner.ts:513-535) appends the files found under each
\* entry of config.mediaDirs: a library reached from n entries is listed n
\* times, and neither filterByDatabaseState nor analyzeFiles drops a repeated
\* path.
RECURSIVE Repeated(_, _)
Repeated(q, n) == IF n <= 1 THEN q ELSE q \o Repeated(q, n - 1)

\* What analyzeFile decides for a file whose probe succeeds: the original
\* material needs the transcode, an already transcoded file is "Already HEVC",
\* a truncated file cannot be probed.
AnalysisOf(files, f) ==
    CASE files[FilePath(f)].kind = "orig" -> "transcode"
      [] files[FilePath(f)].kind = "new" -> "skip"
      [] OTHER -> "error"

\* scanMediaDirectories (scanner.ts:926-975) and main.ts:223-232: discovery,
\* filterByDatabaseState, analyzeFiles, the sort by size; with nothing to
\* transcode the run releases the lock and exits.
ScanMediaDirectories ==
    /\ rpc = "loaded"
    /\ LET discovered == {f \in Files : fs[FilePath(f)] # NoFile}
           A == toAnalyze(db, discovered)
       IN \E bad \in SUBSET A :
            /\ Cardinality(bad) <= faultsLeft
            /\ faultsLeft' = faultsLeft - Cardinality(bad)
            /\ LET need == {f \in A \ bad : AnalysisOf(fs, f) = "transcode"}
                   sz == [f \in Files |-> fs[FilePath(f)].size]
               IN /\ queue' = SortBySize(Repeated(ListOf(need, NumFiles), cfg.rootCopies), sz)
                  /\ hist' = [hist EXCEPT
                        !.analyzed = A,
                        !.scheduled = need,
                        !.op = "scan",
                        !.clean = [f \in Files |->
                            /\ hist.clean[f]
                            /\ f \in discovered
                            /\ \/ FilterVerdict(db, f) = "errors"
                               \/ f \in need]]
                  /\ rpc' = IF need = {} THEN "idle" ELSE "jobs"
                  /\ locked' = (need # {})
    /\ idx' = 0
    /\ UNCHANGED <<runs, cfg, db, disk, fs, job, runLimit, lockVars, schedOther, discVars, callVars>>

\* processFile calls transcodeFile (main.ts:325; part_001:159-189): the
\* temporary output path, the FFmpeg arguments. A dry run has left main()
\* before (main.ts:252-308).
BeginTranscode ==
    /\ rpc = "jobs"
    /\ ~cfg.dryRun
    /\ idx < Len(queue)
    /\ job.pc = "idle"
    /\ LET f == queue[idx + 1]
       IN job' = [NoJob EXCEPT !.pc = "encode", !.file = f, !.path = FilePath(f),
                               !.tmp = getTempOutputPath(FilePath(f)),
                               !.inPlace = shouldOutputInPlace(cfg),
                               !.before = fs[FilePath(f)]]
    /\ UNCHANGED <<rpc, runs, cfg, db, disk, fs, queue, idx, faultsLeft, runLimit, hist, lockVars, schedVars, discVars, callVars>>

\* Sizes the encoder's output may have for an input of size o.
OutputSizes(o) == {s \in {o - 1, o, o + 1} : s >= 1 /\ s <= MaxSize}

\* The encoder process without the test of the exit code: the sizes are
\* compared whatever the encoder returned.
RunEncoder_IgnoresExitCode ==
    /\ job.pc = "encode"
    /\ \E code \in {0, 1} :
         /\ IF code = 0
            THEN \E s \in OutputSizes(fs[job.path].size) :
                    fs' = [fs EXCEPT ![job.tmp] = Content("new", s)]
            ELSE \E partial \in BOOLEAN :
                    fs' = [fs EXCEPT ![job.tmp] =
                                IF partial THEN Content("partial", 1) ELSE @]
         /\ job' = [job EXCEPT !.pc = "verify", !.code = code]
         /\ hist' = [hist EXCEPT !.encoded = @ \cup {job.file}, !.op = "encode",
                                 !.clean[job.file] = @ /\ code # 0]
    /\ UNCHANGED <<rpc, runs, cfg, db, disk, queue, idx, faultsLeft, runLimit, lockVars, schedVars, discVars, callVars>>

\* The encoder process (part_001:193-205): exit code 0 leaves the output at
\* the temporary path; a non-zero exit throws, leaving a partial output or
\* none.
RunEncoder ==
    /\ job.pc = "encode"
    /\ \E code \in {0, 1} :
         /\ IF code = 0
            THEN \E s \in OutputSizes(fs[job.path].size) :
                    /\ fs' = [fs EXCEPT ![job.tmp] = Content("new", s)]
                    /\ job' = [job EXCEPT !.pc = "verify", !.code = code]
            ELSE \E partial \in BOOLEAN :
                    /\ fs' = [fs EXCEPT ![job.tmp] =
                                IF partial THEN Content("partial", 1) ELSE @]
                    /\ job' = [job EXCEPT !.pc = "catch", !.code = code]
         /\ hist' = [hist EXCEPT !.encoded = @ \cup {job.file}, !.op = "encode",
                                 !.clean[job.file] = @ /\ code # 0]
    /\ UNCHANGED <<rpc, runs, cfg, db, disk, queue, idx, faultsLeft, runLimit, lockVars, schedVars, discVars, callVars>>

\* The replacement decision with > in place of >=.
KeepOriginal_OnlyLarger(inPlace, newSize, originalSize) == inPlace /\ newSize > originalSize

\* The replacement decision (part_001:227): in place and not smaller.
KeepOriginal(inPlace, newSize, originalSize) == inPlace /\ newSize >= originalSize

\* Verification (part_001:208-263): stat both files, compute the final
\* output path; in place and not smaller: remove the temporary file and
\* return the "kept original" record; otherwise start the commit.
Verify ==
    /\ job.pc = "verify"
    /\ LET o == fs[job.path].size
           n == fs[job.tmp].size
           final == getFinalOutputPath(job.path, cfg)
       IN IF KeepOriginal(job.inPlace, n, o)
          THEN /\ fs' = Remove(fs, job.tmp)
               /\ job' = [job EXCEPT !.pc = "return", !.origStat = o, !.newStat = n,
                                     !.final = final, !.result = "reverted"]
          ELSE /\ fs' = fs
               /\ job' = [job EXCEPT !.pc = IF job.inPlace THEN "backup" ELSE "move",
                                     !.origStat = o, !.newStat = n, !.final = final,
                                     !.src = job.tmp,
                                     !.dst = IF job.inPlace THEN job.path ELSE final]
    /\ UNCHANGED <<rpc, runs, cfg, db, disk, queue, idx, faultsLeft, runLimit, hist, lockVars, schedVars, discVars, callVars>>


\* Where an exception thrown inside moveFile lands: replaceOriginalFile's
\* catch in place (part_001:337), transcodeFile's catch otherwise (:281).
Thrown(j) == [j EXCEPT !.pc = IF j.inPlace THEN "restore" ELSE "catch"]

\* Where control goes when moveFile returns: remove the backup in place
\* (part_001:334), the success record otherwise (:266-280).
Moved(j) ==
    IF j.inPlace THEN [j EXCEPT !.pc = "rmbackup"]
    ELSE [j EXCEPT !.pc = "return", !.result = "committed"]

\* replaceOriginalFile: Deno.rename(originalPath, backupPath) (part_001:328).
RenameToBackup ==
    /\ job.pc = "backup"
    /\ \/ /\ fs' = Rename(fs, job.path, BackupPath(job.path))
          /\ job' = [job EXCEPT !.pc = "move", !.backedUp = TRUE]
          /\ UNCHANGED faultsLeft
       \/ /\ faultsLeft > 0
          /\ faultsLeft' = faultsLeft - 1
          /\ job' = [job EXCEPT !.pc = "restore"]
          /\ UNCHANGED fs
    /\ UNCHANGED <<rpc, runs, cfg, db, disk, queue, idx, runLimit, hist, lockVars, schedVars, discVars, callVars>>

\* moveFile: Deno.rename(src, dest) (part_001:302-311).  With the temporary
\* directory on another file system the rename throws the cross-device error
\* and the copy+delete fallback runs; any other error is rethrown.
MoveRename ==
    /\ job.pc = "move"
    /\ IF cfg.crossDevice
       THEN /\ job' = [job EXCEPT !.pc = "copy"]
            /\ UNCHANGED <<fs, faultsLeft>>
       ELSE \/ /\ fs' = Rename(fs, job.src, job.dst)
               /\ job' = Moved(job)
               /\ UNCHANGED faultsLeft
            \/ /\ faultsLeft > 0
               /\ faultsLeft' = faultsLeft - 1
               /\ job' = Thrown(job)
               /\ UNCHANGED fs
    /\ UNCHANGED <<rpc, runs, cfg, db, disk, queue, idx, runLimit, hist, lockVars, schedVars, discVars, callVars>>

\* moveFile: Deno.copyFile(src, dest) (part_001:307); a failing copy may
\* leave a truncated destination.
CopyFile ==
    /\ job.pc = "copy"
    /\ \/ /\ fs' = Copy(fs, job.src, job.dst)
          /\ job' = [job EXCEPT !.pc = "rmsrc"]
          /\ UNCHANGED faultsLeft
       \/ /\ faultsLeft > 0
          /\ faultsLeft' = faultsLeft - 1
          /\ \E partial \in BOOLEAN :
                fs' = [fs EXCEPT ![job.dst] = IF partial THEN Content("partial", 1) ELSE @]
          /\ job' = Thrown(job)
    /\ UNCHANGED <<rpc, runs, cfg, db, disk, queue, idx, runLimit, hist, lockVars, schedVars, discVars, callVars>>

\* moveFile: Deno.remove(src) (part_001:308).
RemoveSource ==
    /\ job.pc = "rmsrc"
    /\ \/ /\ fs' = Remove(fs, job.src)
          /\ job' = Moved(job)
          /\ UNCHANGED faultsLeft
       \/ /\ faultsLeft > 0
          /\ faultsLeft' = faultsLeft - 1
          /\ job' = Thrown(job)
          /\ UNCHANGED fs
    /\ UNCHANGED <<rpc, runs, cfg, db, disk, queue, idx, runLimit, hist, lockVars, schedVars, discVars, callVars>>

\* replaceOriginalFile: Deno.remove(backupPath) (part_001:334).
RemoveBackup ==
    /\ job.pc = "rmbackup"
    /\ \/ /\ fs' = Remove(fs, BackupPath(job.path))
          /\ job' = [job EXCEPT !.pc = "return", !.result = "committed"]
          /\ UNCHANGED faultsLeft
       \/ /\ faultsLeft > 0
          /\ faultsLeft' = faultsLeft - 1
          /\ job' = [job EXCEPT !.pc = "restore"]
          /\ UNCHANGED fs
    /\ UNCHANGED <<rpc, runs, cfg, db, disk, queue, idx, runLimit, hist, lockVars, schedVars, discVars, callVars>>

\* replaceOriginalFile's catch rethrowing without the restore.
RestoreBackup_Missing ==
    /\ job.pc = "restore"
    /\ job' = [job EXCEPT !.pc = "catch"]
    /\ UNCHANGED <<rpc, runs, cfg, db, disk, fs, queue, idx, faultsLeft, runLimit, hist, lockVars, schedVars, discVars, callVars>>

\* replaceOriginalFile's catch (part_001:337-345): try
\* Deno.rename(backupPath, originalPath), ignore its failure, rethrow.
RestoreBackup ==
    /\ job.pc = "restore"
    /\ \/ /\ fs[BackupPath(job.path)] # NoFile
          /\ fs' = Rename(fs, BackupPath(job.path), job.path)
          /\ job' = [job EXCEPT !.pc = "catch", !.restoreTried = TRUE, !.restoreOk = TRUE]
          /\ UNCHANGED faultsLeft
       \/ /\ fs[BackupPath(job.path)] = NoFile
          /\ job' = [job EXCEPT !.pc = "catch", !.restoreTried = TRUE]
          /\ UNCHANGED <<fs, faultsLeft>>
       \/ /\ fs[BackupPath(job.path)] # NoFile
          /\ faultsLeft > 0
          /\ faultsLeft' = faultsLeft - 1
          /\ job' = [job EXCEPT !.pc = "catch", !.restoreTried = TRUE]
          /\ UNCHANGED fs
    /\ UNCHANGED <<rpc, runs, cfg, db, disk, queue, idx, runLimit, hist, lockVars, schedVars, discVars, callVars>>

\* transcodeFile's catch (part_001:281-293): remove the temporary file if it
\* exists, return { success: false, error }.
CleanupAfterFailure ==
    /\ job.pc = "catch"
    /\ fs' = Remove(fs, job.tmp)
    /\ job' = [job EXCEPT !.pc = "return", !.result = "failed"]
    /\ UNCHANGED <<rpc, runs, cfg, db, disk, queue, idx, faultsLeft, runLimit, hist, lockVars, schedVars, discVars, callVars>>

\* The TranscodeRecord with the size of the temporary output as newSize also
\* when the original was kept.
RecordOf_OutputSize(j) ==
    [present |-> TRUE, success |-> TRUE, originalSize |-> j.origStat,
     newSize |-> j.newStat,
     kept |-> j.result = "reverted"]

\* The TranscodeRecord transcodeFile returns (part_001:235-251, 266-278).
RecordOf(j) ==
    [present |-> TRUE, success |-> TRUE, originalSize |-> j.origStat,
     newSize |-> IF j.result = "reverted" THEN j.origStat ELSE j.newStat,
     kept |-> j.result = "reverted"]

\* processFile's store update (main.ts:327-335).
StoreUpdate(d, j) ==
    IF j.result \in {"committed", "reverted"}
    THEN addTranscodeRecord(d, j.file, RecordOf(j))
    ELSE addErrorRecord(d, j.file)

\* processFile after transcodeFile returned (main.ts:327-340): the store
\* update and, for every 5th index, saveDatabase.
ProcessFileResult ==
    /\ job.pc = "return"
    /\ db' = StoreUpdate(db, job)
    /\ disk' = IF (idx + 1) % CheckpointEvery = 0 THEN db' ELSE disk
    /\ idx' = idx + 1
    /\ job' = NoJob
    /\ hist' = [hist EXCEPT !.op = "result", !.last = job,
                            !.errorsBefore = db.errors[job.file]]
    /\ UNCHANGED <<rpc, runs, cfg, fs, queue, faultsLeft, runLimit, lockVars, schedVars, discVars, callVars>>

\* runWithConcurrency returned (main.ts:343-368): final saveDatabase,
\* releaseLock, exit.
FinishRun ==
    /\ rpc = "jobs"
    /\ idx = Len(queue)
    /\ job.pc = "idle"
    /\ disk' = db
    /\ rpc' = "idle"
    \* the process exits: its list of jobs and what it observed are gone
    /\ queue' = <<>>
    /\ idx' = 0
    /\ locked' = FALSE
    /\ hist' = [NoHist EXCEPT !.op = "save", !.clean = hist.clean]
    /\ UNCHANGED <<runs, cfg, db, fs, job, faultsLeft, runLimit, lockVars, schedOther, discVars, callVars>>

RunNext ==
    \/ LoadDatabase
    \/ ClearErrorsRun
    \/ ScanMediaDirectories
    \/ BeginTranscode
    \/ RunEncoder
    \/ Verify
    \/ RenameToBackup
    \/ MoveRename
    \/ CopyFile
    \/ RemoveSource
    \/ RemoveBackup
    \/ RestoreBackup
    \/ CleanupAfterFailure
    \/ ProcessFileResult
    \/ FinishRun

\* Every configuration, one run, the full fault budget.
JobInit ==
    /\ LockInit
    /\ DiscIdle
    /\ CallIdle
    /\ SchedIdle
    /\ \E c \in Configs : RunInitWith(c, 1, MaxFaults, RunFiles)

SpecJob == JobInit /\ [][RunNext]_vars

\* The installations of SpecRun: output in place or to a separate directory
\* that mirrors the library, the temporary directory on the same or on
\* another file system.
RunConfigs ==
    {c \in Configs : c.override = "unset" /\ c.outDir = "out" /\ c.preserve}

\* Consecutive runs over a small library with I/O faults, or a few runs of
\* the default installation over a library large enough for the periodic
\* checkpoint.
RunInit ==
    /\ LockInit
    /\ DiscIdle
    /\ CallIdle
    /\ SchedIdle
    /\ \/ \E c \in RunConfigs : RunInitWith(c, MaxRuns, RunFaults, RunFiles)
       \/ \E c \in RunConfigs :
            /\ shouldOutputInPlace(c) /\ ~c.crossDevice
            /\ RunInitWith(c, BatchRuns, 0, BatchFiles)

SpecRun == RunInit /\ [][RunNext]_vars


LockSpecInit ==
    /\ LockInit
    /\ DiscIdle
    /\ CallIdle
    /\ SchedIdle
    /\ RunInitWith(CHOOSE c \in Configs : TRUE, 0, 0, 0)

SpecLock == LockSpecInit /\ [][LockNext]_vars

\* C1: for one lock file path, at most one scheduler instance holds the
\* singleton lock (acquireLock returned true, releaseLock not started) at any
\* moment, over every interleaving of the steps of acquireLock and releaseLock.
C1_AtMostOneHolder ==
    \A p, q \in Procs : (Holds(p) /\ Holds(q)) => p = q

\* C2: an instance that calls lock() while another instance holds the lock
\* gets false from acquireLock without waiting, and exits having performed no
\* job-store load, discovery, probe or encode.
C2_SecondInstanceRefused ==
    \A p \in Procs : contended[p] => (lpc[p] \in {"locking", "refused", "exited"} /\ ~worked[p])


(***************************************************************************)
(* The commit protocol (SpecJob).                                          *)
(***************************************************************************)
InJob == job.pc # "idle"

\* The state right after processFile's store update for hist.last.
AfterResult == rpc = "jobs" /\ job.pc = "idle" /\ hist.op = "result"

\* C3: in every output mode and configuration, transcodeFile changes the
\* content at the original file's path only if the encoder exited with code 0
\* and the temporary output is strictly smaller than the original.
C3_OriginalChangedOnlyWhenSmaller ==
    (InJob /\ fs[job.path] # job.before) =>
        (job.code = 0 /\ job.newStat >= 1 /\ job.newStat < job.origStat)

\* C4: in an in-place commit, a failure after the successful rename
\* original -> backup is followed by an attempted rename backup -> original
\* before the error reaches the caller; when that rename succeeds, the job is
\* reported failed with the original content at the original path and no
\* backup file left.
C4_RestoreAfterBackup ==
    /\ (job.backedUp /\ job.pc = "catch") => job.restoreTried
    /\ (job.pc = "return" /\ job.result = "failed" /\ job.backedUp /\ job.restoreOk) =>
            (fs[job.path] = job.before /\ fs[BackupPath(job.path)] = NoFile)

C4_Witness ==
    /\ job.pc = "return" /\ job.result = "failed"
    /\ job.backedUp /\ job.restoreOk
    /\ fs[job.path] = job.before

\* What "Reverted" means for the job hist.last, seen after the store update.
EndedReverted ==
    LET j == hist.last
    IN /\ j.result = "reverted"
       /\ fs[j.path] = j.before
       /\ fs[j.tmp] = NoFile
       /\ (j.final # j.path => fs[j.final] = NoFile)
       /\ db.records[j.file] =
            [present |-> TRUE, success |-> TRUE, originalSize |-> j.origStat,
             newSize |-> j.origStat, kept |-> TRUE]
       /\ db.errors[j.file] = 0

C6_SeparateLeavesOriginal ==
    (InJob /\ ~job.inPlace) => fs[job.path] = job.before


(***************************************************************************)
(* The job store across runs (SpecRun).                                    *)
(***************************************************************************)
Min(a, b) == IF a < b THEN a ELSE b

Queued == {queue[i] : i \in 1..Len(queue)}

\* Files the current run has passed to analysis, scheduled or encoded.
Touched == hist.analyzed \cup hist.scheduled \cup hist.encoded \cup
           (IF rpc = "jobs" THEN Queued ELSE {})

\* C7: a discovered file whose path holds a success record in the loaded job
\* store is never placed in toAnalyze: the run never probes, schedules or
\* encodes it, in any of the consecutive runs.
C7_DoneNeverReselected ==
    \A f \in Files :
        (hist.loaded.records[f].present /\ hist.loaded.records[f].success)
            => f \notin Touched

C7_Witness ==
    \E f, g \in Files :
        /\ isFileTranscoded(hist.loaded, f)
        /\ fs[FilePath(f)] # NoFile
        /\ rpc = "jobs"
        /\ g \in hist.analyzed

\* C8: a path whose error record has attempts >= 3 is excluded from analysis
\* and scheduling in every later run while the record exists, and only the
\* clear-errors operation removes such a record; clear-errors empties all
\* error records, persists the store and leaves every TranscodeRecord as it
\* was.
C8_Excluded ==
    \A f \in Files :
        (hist.op # "clear" /\ hist.loaded.errors[f] >= 3)
            => (f \notin Touched /\ (rpc # "idle" => db.errors[f] >= 3))

C8_OnlyClearErrors ==
    /\ \A f \in Files :
        (disk.errors[f] >= 3 /\ disk'.errors[f] < 3)
            => (runs' = runs + 1 /\ hist'.op = "clear")
    /\ (runs' = runs + 1 /\ hist'.op = "clear")
            => (/\ disk'.errors = [f \in Files |-> 0]
                /\ disk'.records = disk.records)

C8_PermanentlySkipped == [](C8_Excluded) /\ [][C8_OnlyClearErrors]_vars

C8_Witness ==
    \E f \in Files :
        /\ hist.loaded.errors[f] >= 3
        /\ fs[FilePath(f)] # NoFile
        /\ hist.op = "scan"
        /\ f \notin hist.analyzed

NoSuccessWithError(d) ==
    \A f \in Files : ~(d.records[f].present /\ d.records[f].success /\ d.errors[f] > 0)

C14_LockFileNamesHolder ==
    \A p \in Procs : Holds(p) => content[lockFile[p]] = p

\* Files of the current run's analysis whose probe failed: analysed, neither
\* scheduled nor skipped.
ProbeFailed ==
    {f \in hist.analyzed : f \notin hist.scheduled /\ AnalysisOf(fs, f) # "skip"}

\* C18: a probe failure during analysis does not stop the batch and leaves an
\* error record for the path in the job store, created with attempts 1 or
\* incremented by 1.
C18_ProbeFailureRecorded ==
    hist.op = "scan" =>
        \A f \in ProbeFailed : db.errors[f] = hist.loaded.errors[f] + 1

(***************************************************************************)
(* One run's scheduler (SpecSched): runWithConcurrency, the Semaphore,     *)
(* processFile and the signal handler, as continuations of a               *)
(* single-threaded event loop.  Each action is one continuation, from the  *)
(* point it is resumed to its next await.  The job pipeline is reduced to  *)
(* what jobs in flight can observe of one another: the Semaphore, the job  *)
(* store and the files in the temporary directory.                         *)
(***************************************************************************)
SchedItems == 5

SchedConcurrency == 3

CkptItems == 7

CkptConcurrency == 5

SchedFaultBudget == 1

Tasks == 1..Len(items)

NoTask == 0

\* The outcomes processFile records for a path.
NoOutcome == "none"

\* Semaphore.acquire (process.ts:84-94) called by task k: the new state of
\* the Semaphore and whether the returned promise is already resolved.
acquire(sem, k) ==
    IF sem.permits > 0
    THEN [permits |-> sem.permits - 1, waitQueue |-> sem.waitQueue, resolved |-> TRUE]
    ELSE [permits |-> sem.permits, waitQueue |-> Append(sem.waitQueue, k),
          resolved |-> FALSE]

\* Semaphore.release with the waiter of the wrong end of the queue woken.
release_WakesLast(sem) ==
    IF sem.waitQueue = <<>>
    THEN [permits |-> sem.permits + 1, waitQueue |-> <<>>, next |-> NoTask]
    ELSE [permits |-> sem.permits,
          waitQueue |-> SubSeq(sem.waitQueue, 1, Len(sem.waitQueue) - 1),
          next |-> sem.waitQueue[Len(sem.waitQueue)]]

\* Semaphore.release with the permit handed to the waiter and kept as well.
release_KeepsPermit(sem) ==
    IF sem.waitQueue = <<>>
    THEN [permits |-> sem.permits + 1, waitQueue |-> <<>>, next |-> NoTask]
    ELSE [permits |-> sem.permits + 1, waitQueue |-> Tail(sem.waitQueue),
          next |-> Head(sem.waitQueue)]

\* Semaphore.release (process.ts:96-103): permits++, then the first waiter,
\* if any, takes the permit back and its promise is resolved.
release(sem) ==
    IF sem.waitQueue = <<>>
    THEN [permits |-> sem.permits + 1, waitQueue |-> <<>>, next |-> NoTask]
    ELSE [permits |-> sem.permits + 1 - 1, waitQueue |-> Tail(sem.waitQueue),
          next |-> Head(sem.waitQueue)]

\* getTempOutputPath (part_001:87-91) of item k: the base name of the source
\* path with its extension replaced, in config.tempDir.
TempOf(k) == items[k]

\* A list of n items in which the items named in same share their base name
\* with item 1 (files of different directories or extensions).
ItemNames(n, same) == [k \in 1..n |-> IF k \in same THEN 1 ELSE k]

\* main.ts:311-343: runWithConcurrency is called with the sorted list; the
\* process holds the lock and the loaded store has no entry for the items.
SchedInitWith(n, conc, same, faults) ==
    /\ spc = "map"
    /\ maxConcurrency = conc
    /\ items = ItemNames(n, same)
    /\ mapped = 0
    /\ semaphore = [permits |-> conc, waitQueue |-> <<>>]
    /\ microtasks = <<>>
    /\ tpc = [k \in 1..n |-> "unmapped"]
    /\ store = [k \in 1..n |-> NoOutcome]
    /\ saved = [k \in 1..n |-> NoOutcome]
    /\ snap = [k \in 1..n |-> <<>>]
    /\ temp = [b \in 1..n |-> NoTask]
    /\ exitCode = NoExit
    /\ locked = TRUE
    /\ signalled = FALSE
    /\ schedFaults = faults
    /\ startOrder = <<>>

\* The process exits with the given status: the lock is released by
\* releaseLock, and the Semaphore, the pending continuations and the
\* documents being written are gone with the process.  The store it had in
\* memory is kept as the record of what the run had completed.
Exit(status) ==
    /\ spc' = "exited"
    /\ exitCode' = status
    /\ locked' = FALSE
    /\ semaphore' = [permits |-> 0, waitQueue |-> <<>>]
    /\ microtasks' = <<>>
    /\ tpc' = [k \in Tasks |-> "gone"]
    /\ snap' = [k \in Tasks |-> <<>>]
    /\ startOrder' = <<>>

\* items.map invokes the callback of the next item (process.ts:121-122): the
\* callback runs synchronously up to "await semaphore.acquire()".
MapItem ==
    /\ spc = "map"
    /\ mapped < Len(items)
    /\ LET k == mapped + 1
           a == acquire(semaphore, k)
       IN /\ semaphore' = [permits |-> a.permits, waitQueue |-> a.waitQueue]
          /\ microtasks' = IF a.resolved THEN Append(microtasks, k) ELSE microtasks
          /\ tpc' = [tpc EXCEPT ![k] = IF a.resolved THEN "granted" ELSE "waiting"]
          /\ mapped' = k
    /\ UNCHANGED <<spc, maxConcurrency, items, store, saved, snap, temp, exitCode,
                   locked, signalled, schedFaults, startOrder, lockVars, runVars, discVars, callVars>>

\* await Promise.all(tasks) (process.ts:132): main yields to the event loop.
AwaitAll ==
    /\ spc = "map"
    /\ mapped = Len(items)
    /\ spc' = "await"
    /\ UNCHANGED <<maxConcurrency, items, mapped, semaphore, microtasks, tpc, store,
                   saved, snap, temp, exitCode, locked, signalled, schedFaults,
                   startOrder, lockVars, runVars, discVars, callVars>>

\* The continuation of "await semaphore.acquire()" runs: task(item, index)
\* (process.ts:124), processFile, transcodeFile up to "await
\* ensureDir(config.tempDir)" (main.ts:322-325, part_001:159-176).
StartTask ==
    /\ spc = "await"
    /\ microtasks # <<>>
    /\ LET k == Head(microtasks)
       IN /\ tpc' = [tpc EXCEPT ![k] = "setup"]
          /\ startOrder' = Append(startOrder, k)
    /\ microtasks' = Tail(microtasks)
    /\ UNCHANGED <<spc, maxConcurrency, items, mapped, semaphore, store, saved, snap,
                   temp, exitCode, locked, signalled, schedFaults, lockVars, runVars, discVars, callVars>>

\* The "finally" of the map callback (process.ts:127-129) for task k.
Released(k, pc) ==
    LET r == release(semaphore)
    IN /\ semaphore' = [permits |-> r.permits, waitQueue |-> r.waitQueue]
       /\ microtasks' = IF r.next = NoTask THEN microtasks ELSE Append(microtasks, r.next)
       /\ tpc' = [j \in Tasks |-> IF j = k THEN pc
                                  ELSE IF j = r.next THEN "granted" ELSE tpc[j]]

\* transcodeFile returned to processFile (main.ts:327-340): the store update,
\* then saveDatabase for every fifth index, else the task ends.
Completed(k, outcome) ==
    /\ store' = [store EXCEPT ![k] = outcome]
    /\ IF k % CheckpointEvery = 0
       THEN /\ tpc' = [tpc EXCEPT ![k] = "checkpoint"]
            /\ UNCHANGED <<semaphore, microtasks>>
       ELSE Released(k, "done")

\* ensureDir resolved, the FFmpeg arguments are built and the encoder is
\* spawned with -y on the temporary output path (part_001:176-199).
SpawnEncoder(k) ==
    /\ spc = "await"
    /\ tpc[k] = "setup"
    /\ tpc' = [tpc EXCEPT ![k] = "encode"]
    /\ temp' = [temp EXCEPT ![TempOf(k)] = k]
    /\ UNCHANGED <<spc, maxConcurrency, items, mapped, semaphore, microtasks, store,
                   saved, snap, exitCode, locked, signalled, schedFaults, startOrder,
                   lockVars, runVars, discVars, callVars>>

\* ensureDir(config.tempDir) rejects: transcodeFile is not yet inside its
\* try, so processFile rejects and the finally releases the permit.
SetupThrows(k) ==
    /\ spc = "await"
    /\ tpc[k] = "setup"
    /\ schedFaults > 0
    /\ schedFaults' = schedFaults - 1
    /\ Released(k, "thrown")
    /\ UNCHANGED <<spc, maxConcurrency, items, mapped, store, saved, snap, temp,
                   exitCode, locked, signalled, startOrder, lockVars, runVars, discVars, callVars>>

\* The encoder exits 0 and the success is written to the store before the
\* output has been verified and committed.
EncoderExits_UpdatesStore(k) ==
    /\ spc = "await"
    /\ tpc[k] = "encode"
    /\ tpc' = [tpc EXCEPT ![k] = "verify"]
    /\ store' = [store EXCEPT ![k] = "record"]
    /\ UNCHANGED <<spc, maxConcurrency, items, mapped, semaphore, microtasks,
                   saved, snap, temp, exitCode, locked, signalled, schedFaults,
                   startOrder, lockVars, runVars, discVars, callVars>>

\* The encoder exits with code 0 (part_001:200-205).
EncoderExits(k) ==
    /\ spc = "await"
    /\ tpc[k] = "encode"
    /\ tpc' = [tpc EXCEPT ![k] = "verify"]
    /\ UNCHANGED <<spc, maxConcurrency, items, mapped, semaphore, microtasks, store,
                   saved, snap, temp, exitCode, locked, signalled, schedFaults,
                   startOrder, lockVars, runVars, discVars, callVars>>

\* The encoder exits non-zero and the error escapes transcodeFile instead of
\* being turned into a failed result.
EncoderFails_Rethrows(k) ==
    /\ spc = "await"
    /\ tpc[k] = "encode"
    /\ temp' = [temp EXCEPT ![TempOf(k)] = NoTask]
    /\ Released(k, "thrown")
    /\ UNCHANGED <<spc, maxConcurrency, items, mapped, store, saved, snap, exitCode,
                   locked, signalled, schedFaults, startOrder, lockVars, runVars, discVars, callVars>>

\* The encoder exits non-zero: the catch removes whatever file is at the
\* temporary path and the job is failed (part_001:202-205, 281-292).
EncoderFails(k) ==
    /\ spc = "await"
    /\ tpc[k] = "encode"
    /\ temp' = [temp EXCEPT ![TempOf(k)] = NoTask]
    /\ Completed(k, "error")
    /\ UNCHANGED <<spc, maxConcurrency, items, mapped, saved, snap, exitCode, locked,
                   signalled, schedFaults, startOrder, lockVars, runVars, discVars, callVars>>

\* Verification and commit (part_001:207-280): stat of the temporary output
\* throws when the file is gone; otherwise the file at the temporary path is
\* moved to its destination or removed (output not smaller), or the move
\* fails and the catch removes it.
Commit(k) ==
    /\ spc = "await"
    /\ tpc[k] = "verify"
    /\ temp' = [temp EXCEPT ![TempOf(k)] = NoTask]
    /\ \E outcome \in IF temp[TempOf(k)] = NoTask THEN {"error"} ELSE {"record", "error"} :
            Completed(k, outcome)
    /\ UNCHANGED <<spc, maxConcurrency, items, mapped, saved, snap, exitCode, locked,
                   signalled, schedFaults, startOrder, lockVars, runVars, discVars, callVars>>

\* saveDatabase after its ensureDir (database.ts:245-250): the store is
\* serialised as it is now and the write of the document starts.
CheckpointSnapshot(k) ==
    /\ spc = "await"
    /\ tpc[k] = "checkpoint"
    /\ snap' = [snap EXCEPT ![k] = store]
    /\ tpc' = [tpc EXCEPT ![k] = "write"]
    /\ UNCHANGED <<spc, maxConcurrency, items, mapped, semaphore, microtasks, store,
                   saved, temp, exitCode, locked, signalled, schedFaults, startOrder,
                   lockVars, runVars, discVars, callVars>>

\* Deno.writeTextFile resolved: the document is on disk, processFile returns
\* and the finally releases the permit.
CheckpointWritten(k) ==
    /\ spc = "await"
    /\ tpc[k] = "write"
    /\ saved' = snap[k]
    /\ snap' = [snap EXCEPT ![k] = <<>>]
    /\ Released(k, "done")
    /\ UNCHANGED <<spc, maxConcurrency, items, mapped, store, temp, exitCode, locked,
                   signalled, schedFaults, startOrder, lockVars, runVars, discVars, callVars>>

\* saveDatabase rejects (store I/O error): processFile rejects.
CheckpointFails(k) ==
    /\ spc = "await"
    /\ tpc[k] \in {"checkpoint", "write"}
    /\ schedFaults > 0
    /\ schedFaults' = schedFaults - 1
    /\ snap' = [snap EXCEPT ![k] = <<>>]
    /\ Released(k, "thrown")
    /\ UNCHANGED <<spc, maxConcurrency, items, mapped, store, saved, temp, exitCode,
                   locked, signalled, startOrder, lockVars, runVars, discVars, callVars>>

\* Promise.all resolved: every task is fulfilled (process.ts:132-133).
AllSettled ==
    /\ spc = "await"
    /\ \A k \in Tasks : tpc[k] = "done"
    /\ spc' = "save"
    /\ UNCHANGED <<maxConcurrency, items, mapped, semaphore, microtasks, tpc, store,
                   saved, snap, temp, exitCode, locked, signalled, schedFaults,
                   startOrder, lockVars, runVars, discVars, callVars>>

\* The final save, the summary, releaseLock; main returns and the process
\* exits with status 0 (main.ts:346-368).
FinalSave ==
    /\ spc = "save"
    /\ saved' = store
    /\ Exit(0)
    /\ UNCHANGED <<maxConcurrency, items, mapped, store, temp, signalled, schedFaults,
                   lockVars, runVars, discVars, callVars>>

\* The final saveDatabase rejects: catch, releaseLock, Deno.exit(1)
\* (main.ts:361-365).
FinalSaveFails ==
    /\ spc = "save"
    /\ schedFaults > 0
    /\ schedFaults' = schedFaults - 1
    /\ Exit(1)
    /\ UNCHANGED <<maxConcurrency, items, mapped, store, saved, temp, signalled,
                   lockVars, runVars, discVars, callVars>>

\* Promise.all rejected with the first rejected task: catch, "Fatal error",
\* releaseLock, Deno.exit(1) with the other tasks still in flight
\* (main.ts:361-365).
FatalError ==
    /\ spc = "await"
    /\ \E k \in Tasks : tpc[k] = "thrown"
    /\ Exit(1)
    /\ UNCHANGED <<maxConcurrency, items, mapped, store, saved, temp, signalled,
                   schedFaults, lockVars, runVars, discVars, callVars>>

\* SIGINT or SIGTERM while main awaits (process.ts:139-150): cleanup(),
\* releaseLock, Deno.exit(0).
HandleSignal ==
    /\ spc \in {"await", "save"}
    /\ signalled' = TRUE
    /\ Exit(0)
    /\ UNCHANGED <<maxConcurrency, items, mapped, store, saved, temp, schedFaults,
                   lockVars, runVars, discVars, callVars>>

SchedNext ==
    \/ MapItem
    \/ AwaitAll
    \/ StartTask
    \/ \E k \in Tasks :
        \/ SpawnEncoder(k)
        \/ SetupThrows(k)
        \/ EncoderExits(k)
        \/ EncoderFails(k)
        \/ Commit(k)
        \/ CheckpointSnapshot(k)
        \/ CheckpointWritten(k)
        \/ CheckpointFails(k)
    \/ AllSettled
    \/ FinalSave
    \/ FinalSaveFails
    \/ FatalError
    \/ HandleSignal

\* A run over a list that reaches the periodic checkpoint, under every
\* concurrency level; the base names are distinct, or the first two files
\* (of different directories) share theirs.
SchedInit ==
    /\ LockInit
    /\ DiscIdle
    /\ CallIdle
    /\ RunInitWith(CHOOSE c \in Configs : TRUE, 0, 0, 0)
    /\ \E conc \in 1..SchedConcurrency, same \in {{}, {2}} :
            SchedInitWith(SchedItems, conc, same, SchedFaultBudget)

SpecSched == SchedInit /\ [][SchedNext]_vars

\* A longer list with distinct base names and as many concurrent jobs as
\* the checkpoint period.
CkptInit ==
    /\ LockInit
    /\ DiscIdle
    /\ CallIdle
    /\ RunInitWith(CHOOSE c \in Configs : TRUE, 0, 0, 0)
    /\ SchedInitWith(CkptItems, CkptConcurrency, {}, SchedFaultBudget)

SpecCkpt == CkptInit /\ [][SchedNext]_vars

\* Tasks that have passed semaphore.acquire and have not released.
InFlight ==
    {k \in Tasks : tpc[k] \in {"granted", "setup", "encode", "verify", "checkpoint", "write"}}

\* C11: during runWithConcurrency the number of tasks that have passed
\* semaphore.acquire and not yet released, hence of encoder subprocesses, is
\* at most maxConcurrency, also after tasks failed or threw; the permit
\* count is never negative and never above maxConcurrency.
C11_AtMostMaxConcurrency ==
    spc # "exited" =>
        /\ Cardinality(InFlight) <= maxConcurrency
        /\ Cardinality({k \in Tasks : tpc[k] = "encode"}) <= maxConcurrency
        /\ semaphore.permits >= 0
        /\ semaphore.permits <= maxConcurrency
        /\ semaphore.permits + Cardinality(InFlight) = maxConcurrency

\* A job failed, a task threw, and the pipeline is full again with a task
\* still waiting.
C11_Witness ==
    /\ maxConcurrency >= 2
    /\ \E k \in Tasks : tpc[k] = "thrown"
    /\ \E k \in Tasks : store[k] = "error"
    /\ Cardinality(InFlight) = maxConcurrency
    /\ semaphore.waitQueue # <<>>

\* C12: jobs are admitted in the order of submission: pipelines start in
\* the order of the submitted list, the wait queue holds the waiters in the
\* order they queued, and a released permit always goes to the waiter that
\* queued first.
Increasing(q) == \A a, b \in 1..Len(q) : a < b => q[a] < q[b]

C12_StartInOrder ==
    /\ Increasing(startOrder)
    /\ Increasing(semaphore.waitQueue)
    /\ Increasing(microtasks)

C12_FirstWaiterFirst ==
    \A k \in Tasks :
        (tpc[k] = "waiting" /\ tpc'[k] = "granted") => k = Head(semaphore.waitQueue)

C12_FifoAdmission == [](C12_StartInOrder) /\ [][C12_FirstWaiterFirst]_vars

\* A waiter was granted a released permit and started while at least two
\* later waiters are still queued.
C12_Witness ==
    /\ Len(startOrder) > maxConcurrency
    /\ Len(semaphore.waitQueue) >= 2

\* C13: when SIGINT or SIGTERM ends a run that holds the lock, the job
\* store on disk holds the outcome of every job the run had completed and
\* the lock is released before the process exits.
C13_SignalFlushesStore ==
    signalled => (saved = store /\ ~locked)

\* Completed jobs whose outcome is not in the persisted store.
Unpersisted == {k \in Tasks : store[k] # saved[k]}

\* C15: the store is checkpointed every fifth job completion, for every
\* concurrency level and completion order: while no save is in progress,
\* at most five completed jobs have an outcome that is not yet persisted.
C15_UnpersistedBounded ==
    (spc = "await" /\ \A k \in Tasks : tpc[k] \notin {"checkpoint", "write", "thrown"})
        => Cardinality(Unpersisted) <= CheckpointEvery

\* C17: jobs in flight together share nothing but the job store: the
\* temporary output a job's encoder is writing, or has written and the job
\* is about to verify, is that job's own; no other job has overwritten or
\* removed it.
C17_OwnTempOutput ==
    \A k \in Tasks : tpc[k] \in {"encode", "verify"} => temp[TempOf(k)] = k

NumDirs == 3

MaxRoots == 2

Dirs == 1..NumDirs

NoDir == 0

Parent(d) == IF d = 2 THEN 1 ELSE NoDir

\* The directories walk(d) reads: d and the directories inside it that exist.
Subtree(d) == {d} \cup {c \in Dirs : Parent(c) = d /\ dirState[c] # "missing"}

\* The files walk(d) yields, the directory's own file first.
RECURSIVE WalkList(_, _)
WalkList(d, todo) ==
    IF todo = {} THEN <<>>
    ELSE LET c == CHOOSE x \in todo : \A y \in todo : x <= y
         IN <<c>> \o WalkList(d, todo \ {c})

\* discoverDirectory (scanner.ts:458-499): the walk, then one stat per video
\* file; a file whose stat rejects is left out.
discoverDirectory(d) ==
    SelectSeq(WalkList(d, Subtree(d)), LAMBDA f : fileState[f] = "ok")

\* filterByDatabaseState(files, db).toAnalyze as a list (scanner.ts:660-684).
toAnalyzeList(d, found) ==
    SelectSeq(found, LAMBDA f : FilterVerdict(d, f) = "analyze")

\* The list main hands to runWithConcurrency for a fresh store and files
\* that all need the transcode (scanner.ts:926-975, main.ts:223-232, 343).
toTranscodeOf(found) ==
    SortBySize(toAnalyzeList(EmptyDatabase, found), [f \in Files |-> InitialSize(f)])

DiscInit ==
    /\ LockInit
    /\ RunInitWith(CHOOSE c \in Configs : TRUE, 0, 0, 0)
    /\ SchedIdle
    /\ CallIdle
    /\ dpc = "roots"
    /\ \E n \in 1..MaxRoots : mediaDirs \in [1..n -> Dirs]
    /\ dirState \in [Dirs -> {"ok", "missing", "denied", "unreadable"}]
    /\ \A d \in Dirs : (Parent(d) # NoDir /\ dirState[Parent(d)] = "missing")
                            => dirState[d] = "missing"
    /\ fileState \in [Dirs -> {"ok", "nostat"}]
    /\ rootIdx = 1
    /\ resultFiles = <<>>
    /\ skippedDirs = <<>>

\* Deno.stat(mediaDir) rejects with NotFound: the root is logged, pushed to
\* skippedDirs and the loop continues (scanner.ts:526-530).
SkipMissingRoot ==
    /\ dpc = "roots"
    /\ rootIdx <= Len(mediaDirs)
    /\ dirState[mediaDirs[rootIdx]] = "missing"
    /\ skippedDirs' = Append(skippedDirs, mediaDirs[rootIdx])
    /\ rootIdx' = rootIdx + 1
    /\ UNCHANGED <<dpc, mediaDirs, dirState, fileState, resultFiles, lockVars,
                   runVars, schedVars, callVars>>

\* Deno.stat(mediaDir) rejects with another error: "throw error"
\* (scanner.ts:525-532).
RootStatThrows ==
    /\ dpc = "roots"
    /\ rootIdx <= Len(mediaDirs)
    /\ dirState[mediaDirs[rootIdx]] = "denied"
    /\ dpc' = "thrown"
    /\ UNCHANGED <<mediaDirs, dirState, fileState, rootIdx, resultFiles, skippedDirs,
                   lockVars, runVars, schedVars, callVars>>

\* The walk of the root rejects at a directory it cannot read; nothing
\* catches it in discoverDirectory or discoverMediaFiles (scanner.ts:466-473,
\* 534).
WalkThrows ==
    /\ dpc = "roots"
    /\ rootIdx <= Len(mediaDirs)
    /\ dirState[mediaDirs[rootIdx]] \in {"ok", "unreadable"}
    /\ \E c \in Subtree(mediaDirs[rootIdx]) : dirState[c] \in {"unreadable", "denied"}
    /\ dpc' = "thrown"
    /\ UNCHANGED <<mediaDirs, dirState, fileState, rootIdx, resultFiles, skippedDirs,
                   lockVars, runVars, schedVars, callVars>>

\* discoverDirectory(mediaDir) returns and its files are pushed to the result
\* (scanner.ts:534-536).
DiscoverRoot ==
    /\ dpc = "roots"
    /\ rootIdx <= Len(mediaDirs)
    /\ \A c \in Subtree(mediaDirs[rootIdx]) : dirState[c] = "ok"
    /\ resultFiles' = resultFiles \o discoverDirectory(mediaDirs[rootIdx])
    /\ rootIdx' = rootIdx + 1
    /\ UNCHANGED <<dpc, mediaDirs, dirState, fileState, skippedDirs, lockVars,
                   runVars, schedVars, callVars>>

\* The loop over config.mediaDirs ended: discoverMediaFiles returns its
\* result (scanner.ts:539-548).
DiscoveryReturns ==
    /\ dpc = "roots"
    /\ rootIdx > Len(mediaDirs)
    /\ dpc' = "done"
    /\ UNCHANGED <<mediaDirs, dirState, fileState, rootIdx, resultFiles, skippedDirs,
                   lockVars, runVars, schedVars, callVars>>

DiscNext ==
    \/ SkipMissingRoot
    \/ RootStatThrows
    \/ WalkThrows
    \/ DiscoverRoot
    \/ DiscoveryReturns

SpecDisc == DiscInit /\ [][DiscNext]_vars

\* The readable video files under the configured roots.
Readable ==
    {f \in Dirs :
        /\ fileState[f] = "ok"
        /\ dirState[f] = "ok"
        /\ \E r \in 1..Len(mediaDirs) :
              /\ dirState[mediaDirs[r]] = "ok"
              /\ f = mediaDirs[r] \/ Parent(f) = mediaDirs[r]}

\* C16: the list handed to the scheduler contains no path twice, for every
\* configuration of media roots, equal or nested roots included, so that a
\* path has at most one job in a run.
C16_NoPathTwice ==
    dpc = "done" =>
        LET q == toTranscodeOf(resultFiles)
        IN \A a, b \in 1..Len(q) : q[a] = q[b] => a = b

\* C19: discovery never aborts on an unreadable or missing root, an
\* unreadable subdirectory or a file that cannot be stat'ed: it returns a
\* result that holds every readable file under the configured roots.
C19_DiscoveryTolerant ==
    /\ dpc # "thrown"
    /\ dpc = "done" => \A f \in Readable : \E a \in 1..Len(resultFiles) : resultFiles[a] = f

(***************************************************************************)
(* Classification and target resolution (src/src/scanner.ts), and the      *)
(* analysis of one file.                                                   *)
(*                                                                         *)
(* Strings whose characters the code inspects are sequences of one-        *)
(* character strings.  A JavaScript number is an IEEE-754 double: a        *)
(* positive one is kept as its DoubleBits significant bits, most           *)
(* significant first, with nfrac of them after the binary point, and the   *)
(* division and the multiplication round to nearest, ties to even.         *)
(*                                                                         *)
(* SpecCall applies one function to one input drawn from the input sets.   *)
(***************************************************************************)
\* Math.floor((newHeight * (width / height)) / 2) * 2 in double arithmetic
\* (scanner.ts:628-631), for positive integers.
EvenScaledWidth(width, height, newHeight) ==
    LET DoubleBits == 53
        RECURSIVE Binary(_)
        Binary(n) == IF n = 0 THEN <<>> ELSE Append(Binary(n \div 2), n % 2)
        \* The successor of a bit string; one bit longer when every bit was 1.
        RECURSIVE Increment(_)
        Increment(bits) ==
            IF bits = <<>> THEN <<1>>
            ELSE IF bits[Len(bits)] = 0 THEN [bits EXCEPT ![Len(bits)] = 1]
            ELSE Append(Increment(SubSeq(bits, 1, Len(bits) - 1)), 0)
        \* Round to nearest, ties to even: guard is the first bit dropped,
        \* sticky tells whether a later dropped bit is set.
        RoundNearestEven(bits, guard, sticky, nfrac) ==
            IF guard = 1 /\ (sticky \/ bits[Len(bits)] = 1)
            THEN LET up == Increment(bits)
                 IN IF Len(up) > Len(bits)
                    THEN [bits |-> SubSeq(up, 1, Len(bits)), nfrac |-> nfrac - 1]
                    ELSE [bits |-> up, nfrac |-> nfrac]
            ELSE [bits |-> bits, nfrac |-> nfrac]
        \* The double nearest to width / height, by long division.
        RECURSIVE Quotient(_, _, _)
        Quotient(r, bits, nfrac) ==
            LET bit == IF 2 * r >= height THEN 1 ELSE 0
            IN IF Len(bits) = DoubleBits
               THEN RoundNearestEven(bits, bit, 2 * r - height * bit # 0, nfrac)
               ELSE Quotient(2 * r - height * bit,
                             IF bits = <<>> /\ bit = 0 THEN bits ELSE Append(bits, bit),
                             nfrac + 1)
        aspectRatio == Quotient(width % height, Binary(width \div height), 0)
        \* The exact product newHeight * aspectRatio, bit by bit from the
        \* least significant one.
        RECURSIVE Times(_)
        Times(st) ==
            IF st.i = 0 THEN Binary(st.carry) \o st.out
            ELSE LET t == newHeight * aspectRatio.bits[st.i] + st.carry
                 IN Times([i |-> st.i - 1, carry |-> t \div 2,
                           out |-> <<t % 2>> \o st.out])
        exact == Times([i |-> DoubleBits, carry |-> 0, out |-> <<>>])
        k == Len(exact) - DoubleBits
        \* The double nearest to the product.
        scaled ==
            IF k = 0 THEN aspectRatio
            ELSE RoundNearestEven(SubSeq(exact, 1, DoubleBits), exact[DoubleBits + 1],
                                  \E i \in (DoubleBits + 2)..Len(exact) : exact[i] = 1,
                                  aspectRatio.nfrac - k)
        \* Dividing a double by 2 is exact: one more bit after the point.
        halved == [scaled EXCEPT !.nfrac = @ + 1]
        RECURSIVE Value(_)
        Value(bits) == IF bits = <<>> THEN 0
                       ELSE 2 * Value(SubSeq(bits, 1, Len(bits) - 1)) + bits[Len(bits)]
        \* Math.floor: the bits before the binary point.
        floor == Value(SubSeq(halved.bits, 1, DoubleBits - halved.nfrac))
    IN floor * 2

\* maxHeightOverride === undefined.
NoOverride == 0

\* The null result of calculateTargetResolution.
Null == [width |-> 0, height |-> 0]

\* calculateTargetResolution (scanner.ts:596-634).
calculateTargetResolution(width, height, mediaType, config, maxHeightOverride) ==
    IF maxHeightOverride = NoOverride /\ mediaType = "other" THEN Null
    ELSE LET maxHeight == IF maxHeightOverride # NoOverride THEN maxHeightOverride
                          ELSE IF mediaType = "tv" THEN config.tvMaxHeight
                          ELSE config.movieMaxHeight
         IN IF height <= maxHeight THEN Null
            ELSE [width |-> EvenScaledWidth(width, height, maxHeight),
                  height |-> maxHeight]

\* String.prototype.toLowerCase.
ToLower(s) ==
    LET lower == [A |-> "a", B |-> "b", C |-> "c", D |-> "d", E |-> "e", F |-> "f",
                  G |-> "g", H |-> "h", I |-> "i", J |-> "j", K
                  |-> "k", L |-> "l", M |-> "m", N |-> "n", O |->
                  "o", P |-> "p", Q |-> "q", R |-> "r", S |-> "s",
                  T |-> "t", U |-> "u", V |-> "v", W |-> "w", X
                  |-> "x", Y |-> "y", Z |-> "z"]
    IN [i \in 1..Len(s) |-> IF s[i] \in DOMAIN lower THEN lower[s[i]] ELSE s[i]]

\* String.prototype.includes.
Contains(s, needle) ==
    \E i \in 1..(Len(s) - Len(needle) + 1) : SubSeq(s, i, i + Len(needle) - 1) = needle

\* String.prototype.split('/').
RECURSIVE Split(_)
Split(s) ==
    IF \A i \in 1..Len(s) : s[i] # "/" THEN <<s>>
    ELSE LET i == CHOOSE i \in 1..Len(s) : s[i] = "/" /\ \A j \in 1..(i - 1) : s[j] # "/"
         IN <<SubSeq(s, 1, i - 1)>> \o Split(SubSeq(s, i + 1, Len(s)))

\* basename of @std/path, for a path that does not end with a slash.
basename(filePath) == Split(filePath)[Len(Split(filePath))]

\* classifyMediaType (scanner.ts:557-589) with TV_PATTERNS,
\* TV_FOLDER_PATTERNS and MOVIE_FOLDER_PATTERNS (scanner.ts:317-328).  The
\* parts of dirname(filePath) are the parts of filePath without the last.
classifyMediaType(filePath) ==
    LET fileName == basename(filePath)
        allParts == Split(ToLower(filePath))
        pathParts == SubSeq(allParts, 1, Len(allParts) - 1)
        Digits == {"0", "1", "2", "3", "4", "5", "6", "7", "8", "9"}
        At(s, i) == IF i \in 1..Len(s) THEN s[i] ELSE ""
        \* word, then \s*, then one of follow
        GapThen(s, word, follow) ==
            \E i \in 1..Len(s), j \in 1..Len(s) :
                /\ i + Len(word) - 1 <= Len(s)
                /\ SubSeq(s, i, i + Len(word) - 1) = word
                /\ j >= i + Len(word)
                /\ \A k \in (i + Len(word))..(j - 1) : s[k] = " "
                /\ \E f \in follow : /\ j + Len(f) - 1 <= Len(s)
                                      /\ SubSeq(s, j, j + Len(f) - 1) = f
        AnyDigit == {<<d>> : d \in Digits}
        \* /[Ss]\d{1,2}[Ee]\d{1,2}/
        SxxExx(s) ==
            \E i \in 1..Len(s) :
                /\ At(s, i) \in {"S", "s"}
                /\ At(s, i + 1) \in Digits
                /\ \/ At(s, i + 2) \in {"E", "e"} /\ At(s, i + 3) \in Digits
                   \/ /\ At(s, i + 2) \in Digits
                      /\ At(s, i + 3) \in {"E", "e"}
                      /\ At(s, i + 4) \in Digits
        \* /\d{1,2}x\d{1,2}/
        NxN(s) ==
            \E i \in 1..Len(s) :
                At(s, i) \in Digits /\ At(s, i + 1) = "x" /\ At(s, i + 2) \in Digits
        TV_PATTERNS(s) ==
            \/ SxxExx(s)
            \/ NxN(s)
            \/ GapThen(ToLower(s), <<"s", "e", "a", "s", "o", "n">>, AnyDigit)
            \/ GapThen(ToLower(s), <<"e", "p", "i", "s", "o", "d", "e">>, AnyDigit)
        TV_FOLDER_PATTERNS(s) ==
            \/ GapThen(s, <<"t", "v">>, {<<"s", "h", "o", "w">>})
            \/ Contains(s, <<"s", "e", "r", "i", "e", "s">>)
            \/ Contains(s, <<"s", "e", "a", "s", "o", "n">>)
            \/ Contains(s, <<"e", "p", "i", "s", "o", "d", "e">>)
        MOVIE_FOLDER_PATTERNS(s) ==
            Contains(s, <<"m", "o", "v", "i", "e">>) \/ Contains(s, <<"f", "i", "l", "m">>)
    IN IF TV_PATTERNS(fileName) THEN "tv"
       ELSE IF \E p \in 1..Len(pathParts) : TV_FOLDER_PATTERNS(pathParts[p]) THEN "tv"
       ELSE IF \E p \in 1..Len(pathParts) : MOVIE_FOLDER_PATTERNS(pathParts[p]) THEN "movie"
       ELSE "other"

\* isHEVC (ffprobe.ts:98-101).
isHEVC(codecName) ==
    ToLower(codecName) \in {<<"h", "e", "v", "c">>, <<"h", "2", "6", "5">>, <<"x", "2", "6", "5">>, <<"l", "i", "b", "x", "2", "6", "5">>}

\* probe.video === null.
NoVideo == [codec_name |-> <<>>, width |-> 0, height |-> 0]

\* file: null in an AnalysisResult.
NoMediaFile == [type |-> "none"]

\* analyzeFile without an analysis cache (scanner.ts:750-853): probe is what
\* probeMediaFile returns, "throws" when it rejects.
analyzeFile_IgnoresScaling(filePath, config, probe, maxHeight) ==
    IF probe.throws
    THEN [file |-> NoMediaFile, skipped |-> FALSE, skipReason |-> <<>>, error |-> TRUE]
    ELSE IF probe.video = NoVideo
    THEN [file |-> NoMediaFile, skipped |-> TRUE, skipReason |-> <<"No video stream">>,
          error |-> FALSE]
    ELSE LET mediaType == classifyMediaType(filePath)
             isAlreadyHEVC == isHEVC(probe.video.codec_name)
             target == calculateTargetResolution(probe.video.width, probe.video.height,
                                                 mediaType, config, maxHeight)
             needsTranscode == ~isAlreadyHEVC
             skipReason == IF needsTranscode THEN <<>>
                           ELSE <<"Already HEVC at", probe.video.height>>
         IN [file |-> [type |-> mediaType,
                       codec |-> probe.video.codec_name,
                       width |-> probe.video.width,
                       height |-> probe.video.height,
                       needsTranscode |-> needsTranscode,
                       targetWidth |-> IF target = Null THEN probe.video.width
                                       ELSE target.width,
                       targetHeight |-> IF target = Null THEN probe.video.height
                                        ELSE target.height],
             skipped |-> ~needsTranscode,
             skipReason |-> skipReason,
             error |-> FALSE]

analyzeFile(filePath, config, probe, maxHeight) ==
    IF probe.throws
    THEN [file |-> NoMediaFile, skipped |-> FALSE, skipReason |-> <<>>, error |-> TRUE]
    ELSE IF probe.video = NoVideo
    THEN [file |-> NoMediaFile, skipped |-> TRUE, skipReason |-> <<"No video stream">>,
          error |-> FALSE]
    ELSE LET mediaType == classifyMediaType(filePath)
             isAlreadyHEVC == isHEVC(probe.video.codec_name)
             target == calculateTargetResolution(probe.video.width, probe.video.height,
                                                 mediaType, config, maxHeight)
             needsTranscode == ~isAlreadyHEVC \/ target # Null
             skipReason == IF needsTranscode THEN <<>>
                           ELSE <<"Already HEVC at", probe.video.height>>
         IN [file |-> [type |-> mediaType,
                       codec |-> probe.video.codec_name,
                       width |-> probe.video.width,
                       height |-> probe.video.height,
                       needsTranscode |-> needsTranscode,
                       targetWidth |-> IF target = Null THEN probe.video.width
                                       ELSE target.width,
                       targetHeight |-> IF target = Null THEN probe.video.height
                                        ELSE target.height],
             skipped |-> ~needsTranscode,
             skipReason |-> skipReason,
             error |-> FALSE]

\* The list of the AnalysisSummary that analyzeFiles pushes a result to
\* (scanner.ts:879-898).
SummaryList(result) ==
    IF result.error THEN "errors"
    ELSE IF result.file # NoMediaFile
    THEN IF result.file.needsTranscode THEN "toTranscode" ELSE "skipped"
    ELSE IF result.skipped THEN "skipped"
    ELSE "none"

\* Inputs of calculateTargetResolution and analyzeFile.
MediaTypes == {"tv", "movie", "other"}

Widths == {1248, 1920, 3840}

Heights == {480, 720, 1080, 2160}

HeightConfigs == [tvMaxHeight : {480, 720}, movieMaxHeight : {720, 1080}]

Overrides == {NoOverride, 480, 720}

\* /media/Show/S01E01.mkv
ShowEpisode ==
    <<"/", "m", "e", "d", "i", "a", "/", "S", "h", "o", "w", "/", "S", "0", "1", "E", "0", "1", ".", "m", "k", "v">>

MediaPaths ==
    {ShowEpisode,
     \* /media/Movies/Heat.mkv
     <<"/", "m", "e", "d", "i", "a", "/", "M", "o", "v", "i", "e", "s", "/", "H", "e", "a", "t", ".", "m", "k", "v">>,
     \* /media/clips/a.mp4
     <<"/", "m", "e", "d", "i", "a", "/", "c", "l", "i", "p", "s", "/", "a", ".", "m", "p", "4">>,
     \* /media/TV Shows/pilot.mkv
     <<"/", "m", "e", "d", "i", "a", "/", "T", "V", " ", "S", "h", "o", "w", "s", "/", "p", "i", "l", "o", "t", ".", "m", "k", "v">>,
     \* /media/Films/1x02.mkv
     <<"/", "m", "e", "d", "i", "a", "/", "F", "i", "l", "m", "s", "/", "1", "x", "0", "2", ".", "m", "k", "v">>}

H264 == <<"h", "2", "6", "4">>

Codecs == {H264, <<"h", "e", "v", "c">>, <<"H", "E", "V", "C">>, <<"H", "2", "6", "5">>, <<"v", "p", "9">>}

\* What probeMediaFile does on the file: it rejects, or it resolves to a
\* ProbeResult without or with a video stream.
Probes ==
    [throws : {TRUE}, video : {NoVideo}]
    \cup [throws : {FALSE},
          video : {NoVideo} \cup [codec_name : Codecs, width : Widths, height : Heights]]

TargetResolutionInputs ==
    [op : {"calculateTargetResolution"}, width : Widths, height : Heights,
     mediaType : MediaTypes, config : HeightConfigs, maxHeight : Overrides]

AnalyzeFileInputs ==
    [op : {"analyzeFile"}, path : MediaPaths, probe : Probes, config : HeightConfigs,
     maxHeight : Overrides]

(***************************************************************************)
(* The analysis cache (src/src/database.ts).  A file's modification time   *)
(* is a pair: ms, the milliseconds since the epoch, and sub, the part of   *)
(* the file system's timestamp below one millisecond.  Deno.stat reports   *)
(* mtime as a Date, and toISOString prints a Date to the millisecond.      *)
(***************************************************************************)
CachePaths == {1, 2}

FileSizes == {1, 2}

Mtimes == [ms : {1, 2}, sub : {0, 1}]

\* The file as Deno.stat finds it; exists = FALSE: stat rejects.
FileStats == [exists : BOOLEAN, size : FileSizes, mtime : Mtimes]

\* db.records[filePath] === undefined, and the null of getCachedAnalysis.
NoAnalysis == [path |-> 0, fileSize |-> 0, fileMtime |-> 0]

\* getFileIdentifier (database.ts:434-444): null (NoAnalysis) when stat
\* rejects, otherwise the size and the mtime printed by toISOString.
getFileIdentifier(file) ==
    IF ~file.exists THEN NoAnalysis
    ELSE [path |-> 0, fileSize |-> file.size, fileMtime |-> file.mtime.ms]

\* isAnalysisCacheValid (database.ts:450-456).
isAnalysisCacheValid_SizeOnly(record, currentSize, currentMtime) ==
    record.fileSize = currentSize

isAnalysisCacheValid(record, currentSize, currentMtime) ==
    record.fileSize = currentSize /\ record.fileMtime = currentMtime

\* getCachedAnalysis (database.ts:462-484); file is what stat finds at
\* filePath.
getCachedAnalysis(records, filePath, file) ==
    LET record == records[filePath]
        fileId == getFileIdentifier(file)
    IN IF record = NoAnalysis THEN NoAnalysis
       ELSE IF fileId = NoAnalysis THEN NoAnalysis
       ELSE IF isAnalysisCacheValid(record, fileId.fileSize, fileId.fileMtime) THEN record
       ELSE NoAnalysis

\* setAnalysisRecord (database.ts:489-494).
setAnalysisRecord(records, record) == [records EXCEPT ![record.path] = record]

\* A cache round trip: the file at storePath as it was when it was analysed,
\* the path looked up later and the file found at that path then.
CacheInputs ==
    [op : {"cache"}, records : {[p \in CachePaths |-> NoAnalysis]},
     storePath : CachePaths, analysed : {f \in FileStats : f.exists},
     filePath : CachePaths, file : FileStats]

(***************************************************************************)
(* filterByDatabaseState on a list of discovered files.                    *)
(***************************************************************************)
\* filterByDatabaseState that tests the error record before the success
\* record.
filterByDatabaseState_ErrorsFirst(files, d) ==
    [toAnalyze |-> SelectSeq(files, LAMBDA f : FilterVerdict(d, f) = "analyze"),
     alreadyDone |-> SelectSeq(files, LAMBDA f : /\ isFileTranscoded(d, f)
                                                  /\ getFileErrors(d, f) < MaxAttempts),
     tooManyErrors |-> SelectSeq(files, LAMBDA f : getFileErrors(d, f) >= MaxAttempts)]

\* filterByDatabaseState (scanner.ts:660-684): the loop pushes each file to
\* the list of its verdict, in the order of files.
filterByDatabaseState(files, d) ==
    [toAnalyze |-> SelectSeq(files, LAMBDA f : FilterVerdict(d, f) = "analyze"),
     alreadyDone |-> SelectSeq(files, LAMBDA f : FilterVerdict(d, f) = "done"),
     tooManyErrors |-> SelectSeq(files, LAMBDA f : FilterVerdict(d, f) = "errors")]

\* Discovered lists of up to three entries over three files, a path possibly
\* twice; stores with, per file, no record, a success record or a record
\* with success = false, and no error record or one with 2 or 3 attempts.
FilterFiles == 1..3

FilterInputs ==
    [op : {"filterByDatabaseState"},
     files : UNION {[1..n -> FilterFiles] : n \in 0..3},
     db : {d \in [records : [Files -> {NoRecord,
                                       [NoRecord EXCEPT !.present = TRUE, !.success = TRUE],
                                       [NoRecord EXCEPT !.present = TRUE]}],
                  errors : [Files -> {0, MaxAttempts - 1, MaxAttempts}]] :
              \A f \in Files \ FilterFiles : d.records[f] = NoRecord /\ d.errors[f] = 0}]

(***************************************************************************)
(* Exclusion rules (src/src/scanner.ts).  A regular-expression rule is its *)
(* source text and whether new RegExp accepts it; the rules of the model   *)
(* are literal texts, for which test() under the 'i' flag is a             *)
(* case-insensitive search.                                                *)
(***************************************************************************)
\* new RegExp(pattern, 'i').test(s) inside try/catch: an invalid pattern
\* throws, is logged and matches nothing (scanner.ts:375-382, 389-396).
RegExpTest(pattern, s) ==
    pattern.valid /\ Contains(ToLower(s), ToLower(pattern.source))

NotExcluded == [excluded |-> FALSE, reason |-> <<>>]

\* checkExclusions that gives up at the first invalid regular expression.
checkExclusions_InvalidAborts(filePath, exclusions) ==
    IF ~exclusions.defined THEN NotExcluded
    ELSE
    LET pathLower == ToLower(filePath)
        fileName == basename(filePath)
        pathParts == Split(pathLower)
        Valid(patterns) ==
            SubSeq(patterns, 1,
                   IF \A i \in 1..Len(patterns) : patterns[i].valid THEN Len(patterns)
                   ELSE (CHOOSE i \in 1..Len(patterns) :
                            /\ ~patterns[i].valid
                            /\ \A j \in 1..(i - 1) : patterns[j].valid) - 1)
        directories == SelectSeq(exclusions.directories,
                                 LAMBDA dir : \E i \in 1..Len(pathParts) :
                                                 pathParts[i] = ToLower(dir))
        pathContains == SelectSeq(exclusions.pathContains,
                                  LAMBDA needle : Contains(pathLower, ToLower(needle)))
        pathPatterns == SelectSeq(Valid(exclusions.pathPatterns),
                                  LAMBDA pattern : RegExpTest(pattern, filePath))
        filePatterns == SelectSeq(Valid(exclusions.filePatterns),
                                  LAMBDA pattern : RegExpTest(pattern, fileName))
    IN IF directories # <<>>
       THEN [excluded |-> TRUE, reason |-> <<"Directory excluded", directories[1]>>]
       ELSE IF pathContains # <<>>
       THEN [excluded |-> TRUE, reason |-> <<"Path contains", pathContains[1]>>]
       ELSE IF pathPatterns # <<>>
       THEN [excluded |-> TRUE,
             reason |-> <<"Path matches pattern", pathPatterns[1].source>>]
       ELSE IF filePatterns # <<>> /\ Len(Valid(exclusions.pathPatterns)) = Len(exclusions.pathPatterns)
       THEN [excluded |-> TRUE,
             reason |-> <<"Filename matches pattern", filePatterns[1].source>>]
       ELSE NotExcluded

\* checkExclusions (scanner.ts:343-401): in each of the four loops the first
\* rule that matches returns.
checkExclusions(filePath, exclusions) ==
    IF ~exclusions.defined THEN NotExcluded
    ELSE
    LET pathLower == ToLower(filePath)
        fileName == basename(filePath)
        pathParts == Split(pathLower)
        directories == SelectSeq(exclusions.directories,
                                 LAMBDA dir : \E i \in 1..Len(pathParts) :
                                                 pathParts[i] = ToLower(dir))
        pathContains == SelectSeq(exclusions.pathContains,
                                  LAMBDA needle : Contains(pathLower, ToLower(needle)))
        pathPatterns == SelectSeq(exclusions.pathPatterns,
                                  LAMBDA pattern : RegExpTest(pattern, filePath))
        filePatterns == SelectSeq(exclusions.filePatterns,
                                  LAMBDA pattern : RegExpTest(pattern, fileName))
    IN IF directories # <<>>
       THEN [excluded |-> TRUE, reason |-> <<"Directory excluded", directories[1]>>]
       ELSE IF pathContains # <<>>
       THEN [excluded |-> TRUE, reason |-> <<"Path contains", pathContains[1]>>]
       ELSE IF pathPatterns # <<>>
       THEN [excluded |-> TRUE,
             reason |-> <<"Path matches pattern", pathPatterns[1].source>>]
       ELSE IF filePatterns # <<>>
       THEN [excluded |-> TRUE,
             reason |-> <<"Filename matches pattern", filePatterns[1].source>>]
       ELSE NotExcluded

\* Lists of at most n entries over the set S.
ListsUpTo(S, n) == UNION {[1..k -> S] : k \in 0..n}

\* '(' is not a regular expression.
InvalidPattern == [valid |-> FALSE, source |-> <<"(">>]

ExclusionPaths ==
    {\* /media/Extras/Sample Clip.mkv
     <<"/", "m", "e", "d", "i", "a", "/", "E", "x", "t", "r", "a", "s", "/", "S", "a", "m", "p", "l", "e", " ", "C", "l", "i", "p", ".", "m", "k", "v">>,
     \* /media/Show/e1.mkv
     <<"/", "m", "e", "d", "i", "a", "/", "S", "h", "o", "w", "/", "e", "1", ".", "m", "k", "v">>,
     \* /media/show/Trailer.mkv
     <<"/", "m", "e", "d", "i", "a", "/", "s", "h", "o", "w", "/", "T", "r", "a", "i", "l", "e", "r", ".", "m", "k", "v">>}

ExclusionRules ==
    [defined : {TRUE},
     directories : ListsUpTo({<<"E", "X", "T", "R", "A", "S">>, <<"s", "h", "o", "w">>}, 2),
     pathContains : ListsUpTo({<<"s", "a", "m", "p", "l", "e">>}, 1),
     pathPatterns : ListsUpTo({InvalidPattern, [valid |-> TRUE, source |-> <<"c", "l", "i", "p">>]}, 2),
     filePatterns : ListsUpTo({InvalidPattern, [valid |-> TRUE, source |-> <<"t", "r", "a", "i", "l", "e", "r">>],
                               [valid |-> TRUE, source |-> <<"C", "l", "i", "p">>]}, 2)]
    \cup [defined : {FALSE}, directories : {<<>>}, pathContains : {<<>>},
          pathPatterns : {<<>>}, filePatterns : {<<>>}]

\* One entry of the walk of discoverDirectory: its path, whether its
\* extension is a video extension and whether stat succeeds on it.
ExclusionInputs ==
    [op : {"checkExclusions"}, path : ExclusionPaths, exclusions : ExclusionRules,
     isVideoFile : BOOLEAN, statOk : BOOLEAN]

\* ---- --dry-run ----
\* --dry-run (main.ts:252-308; part_010:344-348): the summary of what would be
\* transcoded is printed, then releaseLock and exit 0, before any job starts.
DryRunExit ==
    /\ rpc = "jobs"
    /\ cfg.dryRun
    /\ rpc' = "idle"
    /\ locked' = FALSE
    /\ queue' = <<>>
    /\ idx' = 0
    /\ hist' = [NoHist EXCEPT !.op = "dry-run", !.clean = hist.clean]
    /\ UNCHANGED <<runs, cfg, db, disk, fs, job, faultsLeft, runLimit, lockVars, schedOther, discVars, callVars>>

\* One invocation, with or without --dry-run (main.ts:138), over a library
\* whose store was left by earlier runs: some files have a failed attempt on
\* record.
DryInit ==
    /\ LockInit
    /\ DiscIdle
    /\ CallIdle
    /\ SchedIdle
    /\ rpc = "idle"
    /\ runs = 0
    /\ \E c \in Configs, d \in BOOLEAN : cfg = [c EXCEPT !.dryRun = d]
    /\ db = EmptyDatabase
    /\ \E failed \in SUBSET (1..RunFiles) :
          disk = [EmptyDatabase EXCEPT
                    !.errors = [f \in Files |-> IF f \in failed THEN 1 ELSE 0]]
    /\ fs = InitialFs(RunFiles)
    /\ queue = <<>>
    /\ idx = 0
    /\ job = NoJob
    /\ faultsLeft = RunFaults
    /\ runLimit = 1
    /\ hist = NoHist

DryNext ==
    \/ RunNext
    \/ DryRunExit

SpecDry == DryInit /\ [][DryNext]_vars

\* One run in which every enabled step of main() and of the job pipeline is
\* eventually taken: the encoder process exits, every awaited file operation
\* returns or throws.
SpecJobLive == JobInit /\ [][RunNext]_vars /\ WF_vars(RunNext)

\* ---- the encoder profile factory (process.ts) ----
\* A bitrate string such as '5M' or '2500k' is kept as the number and the unit
\* its characters spell; an argument that was not passed is Undefined.
Undefined == [value |-> 0, unit |-> "undefined"]

\* The characters of a bitrate string, as FFmpeg receives them.
BitrateText(b) == ToString(b.value) \o b.unit

\* getBitrateForHeight (process.ts:438-445).
getBitrateForHeight(height, config) ==
    IF height <= 720 THEN config.bitrates.low
    ELSE IF height <= 1080 THEN config.bitrates.medium
    ELSE config.bitrates.high

\* createEncodingProfile (process.ts:451-482) with getMaxBitrate (:425-431)
\* and the three profile constructors (:227-279, :285-319, :341-368). 'auto'
\* takes what detectHardwareProfile found; config.nvidia / rockchip / software
\* are the settings after the merge with the defaults; a profile's getScaler
\* is kept as the pieces its template literal puts around width and height.
createEncodingProfile(config, targetHeight, bitrateOverride, detected) ==
    LET profile == IF config.hardwareProfile = "auto" THEN detected
                   ELSE config.hardwareProfile
        bitrate == IF bitrateOverride # Undefined THEN bitrateOverride
                   ELSE getBitrateForHeight(targetHeight, config)
        \* parseFloat(match[1]) * 1.5, printed by the template literal
        halves == 3 * bitrate.value
        maxBitrate == (IF halves % 2 = 0 THEN ToString(halves \div 2)
                       ELSE ToString(halves \div 2) \o ".5") \o bitrate.unit
        createNvidiaProfile(s) ==
            [name |-> "nvidia",
             hwAccelInput |-> [hwaccel |-> "cuda", hwaccelOutputFormat |-> "cuda",
                               extraInputArgs |-> <<"-vsync", "0">>],
             encoder |->
               [encoder |-> "hevc_nvenc",
                bitrateArgs |-> <<"-b:v", BitrateText(bitrate), "-maxrate", maxBitrate,
                                  "-bufsize", BitrateText(bitrate)>>,
                qualityArgs |->
                  <<"-preset", s.preset, "-tune", s.tune>>
                  \o (IF s.rcMode = "vbr" THEN <<"-rc", "vbr">>
                      ELSE IF s.rcMode = "cbr" THEN <<"-rc", "cbr">>
                      ELSE <<"-rc", "constqp">>)
                  \o (IF s.lookahead > 0
                      THEN <<"-rc-lookahead", ToString(s.lookahead)>> ELSE <<>>)
                  \o (IF s.temporalAq THEN <<"-temporal-aq", "1">> ELSE <<>>)
                  \o (IF s.spatialAq
                      THEN <<"-spatial-aq", "1", "-aq-strength", ToString(s.aqStrength)>>
                      ELSE <<>>)
                  \o <<"-bf", ToString(s.bFrames)>>
                  \o (IF s.bFrames > 0 THEN <<"-b_ref_mode", s.bRefMode>> ELSE <<>>)
                  \o <<"-g", ToString(s.gopSize)>>
                  \o <<"-i_qfactor", "0.75", "-b_qfactor", "1.1">>],
             scaler |-> [pre |-> "scale_cuda=", mid |-> ":", post |-> ""]]
        createRockchipProfile(s) ==
            [name |-> "rockchip",
             hwAccelInput |-> [hwaccel |-> "rkmpp", hwaccelOutputFormat |-> "drm_prime",
                               extraInputArgs |-> <<"-afbc", "rga">>],
             encoder |->
               [encoder |-> "hevc_rkmpp",
                bitrateArgs |-> <<"-b:v", BitrateText(bitrate), "-maxrate", maxBitrate>>,
                qualityArgs |->
                  <<"-rc_mode", s.rcMode>>
                  \o (IF s.rcMode = "CQP" THEN <<"-qp_init", ToString(s.qp)>> ELSE <<>>)],
             scaler |-> [pre |-> "scale_rkrga=w=", mid |-> ":h=",
                         post |-> ":format=nv12" \o (IF s.afbc THEN ":afbc=1" ELSE "")]]
        createSoftwareProfile(s) ==
            [name |-> "software",
             \* no hardware acceleration: the three fields are absent
             hwAccelInput |-> [hwaccel |-> "", hwaccelOutputFormat |-> "",
                               extraInputArgs |-> <<>>],
             encoder |->
               [encoder |-> "libx265",
                \* CRF mode, no explicit bitrate
                bitrateArgs |-> <<>>,
                qualityArgs |->
                  <<"-preset", s.preset, "-crf", ToString(s.crf)>>
                  \o (IF s.tune # "none" THEN <<"-tune", s.tune>> ELSE <<>>)],
             scaler |-> [pre |-> "scale=", mid |-> ":", post |-> ""]]
    IN CASE profile = "nvidia" -> createNvidiaProfile(config.nvidia)
         [] profile = "rockchip" -> createRockchipProfile(config.rockchip)
         [] OTHER -> createSoftwareProfile(config.software)

\* buildFFmpegArgsFromProfile with the scaler filter pushed after the bitrate
\* arguments.
buildFFmpegArgsFromProfile_ScalerLate(profile, inputPath, outputPath, targetWidth, targetHeight) ==
    (IF profile.hwAccelInput.hwaccel # ""
     THEN <<"-hwaccel", profile.hwAccelInput.hwaccel>> ELSE <<>>)
    \o (IF profile.hwAccelInput.hwaccelOutputFormat # ""
        THEN <<"-hwaccel_output_format", profile.hwAccelInput.hwaccelOutputFormat>>
        ELSE <<>>)
    \o profile.hwAccelInput.extraInputArgs
    \o <<"-i", inputPath>>
    \o <<"-c:v", profile.encoder.encoder>>
    \o profile.encoder.bitrateArgs
    \o (IF targetWidth # 0 /\ targetHeight # 0
        THEN <<"-vf", profile.scaler.pre \o ToString(targetWidth) \o profile.scaler.mid
                       \o ToString(targetHeight) \o profile.scaler.post>>
        ELSE <<>>)
    \o profile.encoder.qualityArgs
    \o <<"-c:a", "copy">>
    \o <<"-c:s", "copy">>
    \o <<"-map", "0">>
    \o <<"-y">>
    \o <<outputPath>>

\* buildFFmpegArgsFromProfile (process.ts:487-543): the pushes in their
\* order; a null target is 0, which the test "targetWidth && targetHeight"
\* treats alike.
buildFFmpegArgsFromProfile(profile, inputPath, outputPath, targetWidth, targetHeight) ==
    (IF profile.hwAccelInput.hwaccel # ""
     THEN <<"-hwaccel", profile.hwAccelInput.hwaccel>> ELSE <<>>)
    \o (IF profile.hwAccelInput.hwaccelOutputFormat # ""
        THEN <<"-hwaccel_output_format", profile.hwAccelInput.hwaccelOutputFormat>>
        ELSE <<>>)
    \o profile.hwAccelInput.extraInputArgs
    \o <<"-i", inputPath>>
    \o <<"-c:v", profile.encoder.encoder>>
    \o (IF targetWidth # 0 /\ targetHeight # 0
        THEN <<"-vf", profile.scaler.pre \o ToString(targetWidth) \o profile.scaler.mid
                       \o ToString(targetHeight) \o profile.scaler.post>>
        ELSE <<>>)
    \o profile.encoder.bitrateArgs
    \o profile.encoder.qualityArgs
    \o <<"-c:a", "copy">>
    \o <<"-c:s", "copy">>
    \o <<"-map", "0">>
    \o <<"-y">>
    \o <<outputPath>>

\* ---- inputs of buildFFmpegArgs ----
DEFAULT_NVIDIA_SETTINGS ==
    [preset |-> "p5", tune |-> "hq", rcMode |-> "vbr", lookahead |-> 20,
     temporalAq |-> TRUE, spatialAq |-> FALSE, aqStrength |-> 8, bFrames |-> 3,
     bRefMode |-> "middle", gopSize |-> 250]

DEFAULT_ROCKCHIP_SETTINGS == [rcMode |-> "VBR", afbc |-> TRUE, qp |-> 23]

DEFAULT_SOFTWARE_SETTINGS == [preset |-> "medium", crf |-> 23, tune |-> "none"]

\* The defaults and settings that take the other branches of the
\* constructors.
EncoderSettings ==
    {[nvidia |-> n, rockchip |-> r, software |-> s] :
        n \in {DEFAULT_NVIDIA_SETTINGS,
               [DEFAULT_NVIDIA_SETTINGS EXCEPT !.rcMode = "cbr", !.lookahead = 0,
                    !.temporalAq = FALSE, !.spatialAq = TRUE, !.bFrames = 0],
               [DEFAULT_NVIDIA_SETTINGS EXCEPT !.rcMode = "constqp"]},
        r \in {DEFAULT_ROCKCHIP_SETTINGS,
               [DEFAULT_ROCKCHIP_SETTINGS EXCEPT !.rcMode = "CQP", !.afbc = FALSE]},
        s \in {DEFAULT_SOFTWARE_SETTINGS,
               [DEFAULT_SOFTWARE_SETTINGS EXCEPT !.tune = "grain"]}}

\* The default table '2M' / '5M' / '15M' (schemas.ts:292) and another one.
BitrateTables ==
    {[low |-> [value |-> 2, unit |-> "M"], medium |-> [value |-> 5, unit |-> "M"],
      high |-> [value |-> 15, unit |-> "M"]],
     [low |-> [value |-> 1500, unit |-> "k"], medium |-> [value |-> 3, unit |-> "M"],
      high |-> [value |-> 8, unit |-> "M"]]}

BitrateOverrides == {Undefined, [value |-> 4, unit |-> "M"], [value |-> 2500, unit |-> "k"]}

HardwareProfiles == {"rockchip", "nvidia", "software", "auto"}

\* MediaFiles as analyzeFile leaves them: the target is the scaled size or
\* the source size.
EncoderFiles ==
    {[width |-> d[1], height |-> d[2], targetWidth |-> d[3], targetHeight |-> d[4],
      overrides |-> [bitrate |-> b]] :
        d \in {<<1920, 1080, 1280, 720>>, <<1920, 1080, 1920, 1080>>,
               <<3840, 2160, 3840, 2160>>, <<3840, 2160, 1920, 1080>>,
               <<1248, 1080, 830, 720>>, <<720, 480, 720, 480>>},
        b \in BitrateOverrides}

BuildArgsInputs ==
    {[op |-> "buildFFmpegArgs", inputPath |-> "/media/Show/S01E01.mkv",
      outputPath |-> "/tmp/S01E01.transcoding.mkv", file |-> f,
      config |-> [hardwareProfile |-> h, bitrates |-> t, nvidia |-> e.nvidia,
                  rockchip |-> e.rockchip, software |-> e.software],
      detected |-> d] :
        f \in EncoderFiles, h \in HardwareProfiles, t \in BitrateTables,
        e \in EncoderSettings, d \in HardwareProfiles \ {"auto"}}

\* ---- the cached encoding profile (part_001:24-54) ----
\* cachedProfile = null.
NoProfile == [name |-> "null"]

\* Jobs of one run whose pipelines are in flight together.
NumProfileJobs == 3

ProfileJobs == 1..NumProfileJobs

\* getEncodingProfile comparing only the cached height.
GetEncodingProfileCall_HeightOnly(j) ==
    /\ cpc[j] = "start"
    /\ IF /\ env.cachedProfile # NoProfile
          /\ env.cachedProfileHeight = env.jobs[j].targetHeight
       THEN /\ ret' = [ret EXCEPT ![j] = env.cachedProfile]
            /\ cpc' = [cpc EXCEPT ![j] = "returned"]
       ELSE /\ cpc' = [cpc EXCEPT ![j] = "await"]
            /\ ret' = ret
    /\ UNCHANGED <<env, lockVars, runVars, schedVars, discVars>>

\* getEncodingProfile up to its await (part_001:38-47): the cached profile is
\* returned when there is one and the cached height and bitrate override are
\* the arguments; otherwise createEncodingProfile is called and awaited.
GetEncodingProfileCall(j) ==
    /\ cpc[j] = "start"
    /\ IF /\ env.cachedProfile # NoProfile
          /\ env.cachedProfileHeight = env.jobs[j].targetHeight
          /\ env.cachedProfileBitrate = env.jobs[j].bitrateOverride
       THEN /\ ret' = [ret EXCEPT ![j] = env.cachedProfile]
            /\ cpc' = [cpc EXCEPT ![j] = "returned"]
       ELSE /\ cpc' = [cpc EXCEPT ![j] = "await"]
            /\ ret' = ret
    /\ UNCHANGED <<env, lockVars, runVars, schedVars, discVars>>

\* getEncodingProfile after its await (part_001:47-53): the three module
\* variables are assigned and cachedProfile is returned without another
\* suspension.
GetEncodingProfileResume(j) ==
    /\ cpc[j] = "await"
    /\ LET own == env.jobs[j]
           built == createEncodingProfile(env.config, own.targetHeight,
                                          own.bitrateOverride, env.detected)
       IN /\ env' = [env EXCEPT !.cachedProfile = built,
                                !.cachedProfileHeight = own.targetHeight,
                                !.cachedProfileBitrate = own.bitrateOverride]
          /\ ret' = [ret EXCEPT ![j] = built]
    /\ cpc' = [cpc EXCEPT ![j] = "returned"]
    /\ UNCHANGED <<lockVars, runVars, schedVars, discVars>>

\* A run whose jobs have the target heights and bitrate overrides of their
\* files; no profile is cached when the process starts (part_001:24-27).
ProfileInit ==
    /\ LockInit
    /\ DiscIdle
    /\ SchedIdle
    /\ RunInitWith(CHOOSE c \in Configs : TRUE, 0, 0, 0)
    /\ cpc = [j \in ProfileJobs |-> "start"]
    /\ ret = [j \in ProfileJobs |-> NoProfile]
    /\ \E jobs \in [ProfileJobs -> [targetHeight : {720, 1080},
                                   bitrateOverride : {Undefined, [value |-> 4, unit |-> "M"]}]],
          h \in {"nvidia", "auto"} :
          env = [jobs |-> jobs,
                 config |-> [hardwareProfile |-> h,
                             bitrates |-> CHOOSE t \in BitrateTables : t.low.value = 2,
                             nvidia |-> DEFAULT_NVIDIA_SETTINGS,
                             rockchip |-> DEFAULT_ROCKCHIP_SETTINGS,
                             software |-> DEFAULT_SOFTWARE_SETTINGS],
                 detected |-> "rockchip",
                 cachedProfile |-> NoProfile,
                 cachedProfileHeight |-> 0,
                 cachedProfileBitrate |-> Undefined]

ProfileNext ==
    \E j \in ProfileJobs :
        \/ GetEncodingProfileCall(j)
        \/ GetEncodingProfileResume(j)

SpecProfile == ProfileInit /\ [][ProfileNext]_vars

\* ---- a run that is killed ----
\* The process dies during a run (power loss, SIGKILL): main()'s memory, the
\* store it was updating (main.ts:322-335) and its position are gone, the
\* lock goes with the process; the store file and the media files stay as
\* the last completed write left them.
Crash ==
    /\ rpc # "idle"
    /\ rpc' = "idle"
    /\ locked' = FALSE
    /\ db' = EmptyDatabase
    /\ job' = NoJob
    /\ queue' = <<>>
    /\ idx' = 0
    /\ hist' = [NoHist EXCEPT !.op = "crash", !.clean = hist.clean]
    /\ UNCHANGED <<runs, cfg, disk, fs, faultsLeft, runLimit, lockVars, schedOther, discVars, callVars>>

\* A run that may be killed at any point, and the run after it.
CrashRuns == 2

CrashInit ==
    /\ LockInit
    /\ DiscIdle
    /\ CallIdle
    /\ SchedIdle
    /\ \E c \in Configs : RunInitWith(c, CrashRuns, RunFaults, RunFiles)

CrashNext ==
    \/ RunNext
    \/ Crash

SpecCrash == CrashInit /\ [][CrashNext]_vars

LiveConcurrency == 3

\* A run over a list as long as the checkpoint period, with distinct base
\* names, one job at a time or several.
SchedLiveInit ==
    /\ LockInit
    /\ DiscIdle
    /\ CallIdle
    /\ RunInitWith(CHOOSE c \in Configs : TRUE, 0, 0, 0)
    /\ \E conc \in 1..LiveConcurrency :
            SchedInitWith(CheckpointEvery, conc, {}, SchedFaultBudget)

\* A run of the scheduler in which every step that can be taken is
\* eventually taken: each encoder process exits, each awaited write returns
\* or throws, each ready continuation runs (process.ts:113-134).
SpecSchedLive == SchedLiveInit /\ [][SchedNext]_vars /\ WF_vars(SchedNext)

\* ---- the exit paths of main() and the signal handler ----
\* The ways main() leaves after acquireLock returned true (main.ts:187-368).
ExitPaths == {"list-errors", "clear-errors", "nothing", "dry-run", "completion", "fatal"}

\* The two flows of control of the process that call releaseLock: main() and
\* the handler of SIGINT / SIGTERM.
Flows == {"main", "signal"}

\* No exit status yet: the process is running.
Running == 0 - 1

\* main() reaches the end of its path: the releaseLock before Deno.exit
\* (main.ts:200, 209, 227, 306, 363) or at the end of main (main.ts:367).
MainReachesExit ==
    /\ ret = Running
    /\ cpc.main = "run"
    /\ cpc' = [cpc EXCEPT !.main = "release"]
    /\ UNCHANGED <<env, ret, lockVars, runVars, schedVars, discVars>>

\* SIGINT or SIGTERM is delivered (process.ts:139-149): handleSignal runs
\* cleanup(), which resolves at once, and comes to its releaseLock.
SignalArrives ==
    /\ ret = Running
    /\ cpc.signal = "idle"
    /\ cpc' = [cpc EXCEPT !.signal = "release"]
    /\ UNCHANGED <<env, ret, lockVars, runVars, schedVars, discVars>>

\* releaseLock is called (process.ts:57-59): with lockFile null it returns;
\* otherwise lockFile.unlock() is started and awaited.
ReleaseLockCall(c) ==
    /\ ret = Running
    /\ cpc[c] = "release"
    /\ cpc' = [cpc EXCEPT ![c] = IF env.lockFile = "null" THEN "released" ELSE "unlock"]
    /\ UNCHANGED <<env, ret, lockVars, runVars, schedVars, discVars>>

\* unlock() has resolved (process.ts:60-64): lockFile.close(), lockFile =
\* null, and Deno.remove of the lock file is started and awaited.  When the
\* other flow has set lockFile to null in the meantime, lockFile.close()
\* throws, the catch logs (process.ts:66-68) and releaseLock returns.
ReleaseLockUnlocked(c) ==
    /\ ret = Running
    /\ cpc[c] = "unlock"
    /\ IF env.lockFile = "null"
       THEN /\ env' = [env EXCEPT !.flock = FALSE]
            /\ cpc' = [cpc EXCEPT ![c] = "released"]
       ELSE /\ env' = [env EXCEPT !.flock = FALSE, !.lockFile = "null",
                                  !.removes = @ + 1]
            /\ cpc' = [cpc EXCEPT ![c] = "remove"]
    /\ UNCHANGED <<ret, lockVars, runVars, schedVars, discVars>>

\* Deno.remove has resolved (process.ts:64-65): the lock file is gone and
\* releaseLock returns.
ReleaseLockRemoved(c) ==
    /\ ret = Running
    /\ cpc[c] = "remove"
    /\ env' = [env EXCEPT !.file = FALSE, !.removes = @ - 1]
    /\ cpc' = [cpc EXCEPT ![c] = "released"]
    /\ UNCHANGED <<ret, lockVars, runVars, schedVars, discVars>>

\* Deno.exit after releaseLock returned: status 1 on the fatal path
\* (main.ts:364), 0 on the others and in the handler (process.ts:145).  The
\* process ends at once: its flock goes with it, and a Deno.remove that the
\* other flow has started and not yet seen resolved has removed the file or
\* not.
ProcessExits(c) ==
    /\ ret = Running
    /\ cpc[c] = "released"
    /\ c = "main" => env.path # "completion"
    /\ ret' = IF c = "main" /\ env.path = "fatal" THEN 1 ELSE 0
    /\ \E gone \in IF env.removes > 0 THEN BOOLEAN ELSE {FALSE} :
          env' = [env EXCEPT !.flock = FALSE, !.removes = 0,
                             !.file = IF gone THEN FALSE ELSE @]
    /\ cpc' = [f \in Flows |-> "ended"]
    /\ UNCHANGED <<lockVars, runVars, schedVars, discVars>>

\* main() returned after its last releaseLock (main.ts:367-368): the process
\* ends when nothing is pending any more.
MainReturns ==
    /\ ret = Running
    /\ cpc.main = "released"
    /\ env.path = "completion"
    /\ cpc.signal = "idle"
    /\ env.removes = 0
    /\ ret' = 0
    /\ env' = [env EXCEPT !.flock = FALSE]
    /\ cpc' = [f \in Flows |-> "ended"]
    /\ UNCHANGED <<lockVars, runVars, schedVars, discVars>>

\* acquireLock has returned true (process.ts:20-47): the lock file exists,
\* is locked, and lockFile is its handle; main() is on one of its paths.
ExitInit ==
    /\ LockInit
    /\ DiscIdle
    /\ SchedIdle
    /\ RunInitWith(CHOOSE c \in Configs : TRUE, 0, 0, 0)
    /\ cpc = [main |-> "run", signal |-> "idle"]
    /\ ret = Running
    /\ \E p \in ExitPaths :
          env = [path |-> p, lockFile |-> "open", flock |-> TRUE, file |-> TRUE,
                 removes |-> 0]

ExitNext ==
    \/ MainReachesExit
    \/ SignalArrives
    \/ \E c \in Flows :
        \/ ReleaseLockCall(c)
        \/ ReleaseLockUnlocked(c)
        \/ ReleaseLockRemoved(c)
        \/ ProcessExits(c)
    \/ MainReturns

SpecExit == ExitInit /\ [][ExitNext]_vars

\* ---- runs of a configuration whose media roots overlap ----
RootRuns == 2

\* Consecutive runs, each of them a transcode run or --clear-errors, starting
\* from an empty store, of a configuration that names the library's root once
\* or twice in config.mediaDirs.
RootsInit ==
    /\ LockInit
    /\ DiscIdle
    /\ CallIdle
    /\ SchedIdle
    /\ \E c \in RunConfigs, n \in 1..MaxRoots :
          RunInitWith([c EXCEPT !.rootCopies = n], RootRuns, RunFaults, RunFiles)

SpecRoots == RootsInit /\ [][RunNext]_vars

\* ---- a list long enough for two periodic checkpoints ----
OverlapItems == 2 * CheckpointEvery

OverlapConcurrency == 2

\* A run over a list whose fifth and tenth job both call saveDatabase, with
\* two jobs at a time and no I/O failure, or a run over the shorter list, one
\* job at a time, with I/O failures.
OverlapInit ==
    /\ LockInit
    /\ DiscIdle
    /\ CallIdle
    /\ RunInitWith(CHOOSE c \in Configs : TRUE, 0, 0, 0)
    /\ \/ SchedInitWith(OverlapItems, OverlapConcurrency, {}, 0)
       \/ SchedInitWith(SchedItems, 1, {}, SchedFaultBudget)

SpecOverlap == OverlapInit /\ [][SchedNext]_vars

\* ---- loading the two documents (database.ts) ----
DATABASE_VERSION == 1

ANALYSIS_VERSION == 1

\* What a load returns or throws.
Loaded(document) == [threw |-> "", db |-> document]

Threw(error) == [threw |-> error, db |-> <<>>]

\* loadDatabase that starts from an empty store when the version differs.
loadDatabase_Recreates(file, now) ==
    IF ~file.exists THEN
        Loaded([version |-> DATABASE_VERSION, lastRun |-> now,
                records |-> {}, errors |-> <<>>])
    ELSE IF file.readError THEN Threw("PermissionDenied")
    ELSE IF ~file.parses THEN Threw("SyntaxError")
    ELSE IF file.document.version # DATABASE_VERSION
         THEN Loaded([version |-> DATABASE_VERSION, lastRun |-> now,
                      records |-> {}, errors |-> <<>>])
    ELSE Loaded(file.document)

\* loadDatabase (database.ts:218-238): readTextFile and JSON.parse; a version
\* other than DATABASE_VERSION is overwritten in the parsed document; NotFound
\* gives createEmptyDatabase() (:206-213), every other error is rethrown.
\* file is the store file: whether it exists, whether reading it fails,
\* whether its text parses, and the document the text spells.
loadDatabase(file, now) ==
    IF ~file.exists THEN
        Loaded([version |-> DATABASE_VERSION, lastRun |-> now,
                records |-> {}, errors |-> <<>>])
    ELSE IF file.readError THEN Threw("PermissionDenied")
    ELSE IF ~file.parses THEN Threw("SyntaxError")
    ELSE IF file.document.version # DATABASE_VERSION
         THEN Loaded([file.document EXCEPT !.version = DATABASE_VERSION])
    ELSE Loaded(file.document)

\* loadAnalysisDatabase (database.ts:393-413): a version other than
\* ANALYSIS_VERSION gives createEmptyAnalysisDatabase() (:382-388), as does
\* NotFound; every other error is rethrown.
loadAnalysisDatabase(file, now) ==
    IF ~file.exists THEN
        Loaded([version |-> ANALYSIS_VERSION, lastUpdated |-> now, records |-> {}])
    ELSE IF file.readError THEN Threw("PermissionDenied")
    ELSE IF ~file.parses THEN Threw("SyntaxError")
    ELSE IF file.document.version # ANALYSIS_VERSION
         THEN Loaded([version |-> ANALYSIS_VERSION, lastUpdated |-> now,
                      records |-> {}])
    ELSE Loaded(file.document)

\* ---- inputs of the loads ----
\* Versions a file on disk may carry: an older one, the current one, a newer
\* one.
DocumentVersions == {0, 1, 2}

\* Job Store documents: success records of some paths, attempts of others.
StoreDocuments ==
    [version : DocumentVersions, lastRun : {1}, records : SUBSET {1, 2},
     errors : [{3, 4} -> 0..2]]

AnalysisDocuments ==
    [version : DocumentVersions, lastUpdated : {1}, records : SUBSET {1, 2}]

\* A file that is missing, unreadable, not JSON, or holds a document.
FilesHolding(documents) ==
    {[exists |-> e, readError |-> r, parses |-> p, document |-> d] :
        e \in BOOLEAN, r \in BOOLEAN, p \in BOOLEAN, d \in documents}

LoadInputs ==
    {[op |-> "loadDatabase", file |-> f, now |-> 2] : f \in FilesHolding(StoreDocuments)}
    \cup {[op |-> "loadAnalysisDatabase", file |-> f, now |-> 2] :
             f \in FilesHolding(AnalysisDocuments)}

(***************************************************************************)
(* SpecCall: one call of one function on one input.                        *)
(***************************************************************************)
CallInit ==
    /\ LockInit
    /\ RunInitWith(CHOOSE c \in Configs : TRUE, 0, 0, 0)
    /\ SchedIdle
    /\ DiscIdle
    /\ cpc = "call"
    /\ \/ env \in TargetResolutionInputs
       \/ env \in AnalyzeFileInputs
       \/ env \in CacheInputs
       \/ env \in FilterInputs
       \/ env \in ExclusionInputs
       \/ env \in BuildArgsInputs
       \/ env \in LoadInputs
    /\ ret = <<>>

CallCalculateTargetResolution ==
    /\ cpc = "call"
    /\ env.op = "calculateTargetResolution"
    /\ cpc' = "done"
    /\ ret' = calculateTargetResolution(env.width, env.height, env.mediaType,
                                        env.config, env.maxHeight)
    /\ UNCHANGED <<env, lockVars, runVars, schedVars, discVars>>

\* One iteration of the loop of analyzeFiles (scanner.ts:872-899).
CallAnalyzeFile ==
    /\ cpc = "call"
    /\ env.op = "analyzeFile"
    /\ cpc' = "done"
    /\ LET result == analyzeFile(env.path, env.config, env.probe, env.maxHeight)
       IN ret' = [result |-> result, list |-> SummaryList(result)]
    /\ UNCHANGED <<env, lockVars, runVars, schedVars, discVars>>

\* analyzeFile on a cache miss (scanner.ts:773-776):
\* probeResultToAnalysisRecord takes fileSize and fileMtime from
\* getFileIdentifier, and setAnalysisRecord stores the record.
CallSetAnalysisRecord ==
    /\ cpc = "call"
    /\ env.op = "cache"
    /\ cpc' = "stored"
    /\ LET fileId == getFileIdentifier(env.analysed)
           record == [fileId EXCEPT !.path = env.storePath]
       IN env' = [env EXCEPT !.records = setAnalysisRecord(@, record)]
    /\ UNCHANGED <<ret, lockVars, runVars, schedVars, discVars>>

\* analyzeFile looks the path up (scanner.ts:763).
CallGetCachedAnalysis ==
    /\ cpc \in {"call", "stored"}
    /\ env.op = "cache"
    /\ cpc' = "done"
    /\ ret' = getCachedAnalysis(env.records, env.filePath, env.file)
    /\ UNCHANGED <<env, lockVars, runVars, schedVars, discVars>>

CallFilterByDatabaseState ==
    /\ cpc = "call"
    /\ env.op = "filterByDatabaseState"
    /\ cpc' = "done"
    /\ ret' = filterByDatabaseState(env.files, env.db)
    /\ UNCHANGED <<env, lockVars, runVars, schedVars, discVars>>

\* The body of the loop of discoverDirectory for one entry of the walk
\* (scanner.ts:474-495): list is where the entry ends up.
CallCheckExclusions ==
    /\ cpc = "call"
    /\ env.op = "checkExclusions"
    /\ cpc' = "done"
    /\ LET exclusionCheck == checkExclusions(env.path, env.exclusions)
       IN ret' = [check |-> exclusionCheck,
                  list |-> IF ~env.isVideoFile THEN "none"
                           ELSE IF exclusionCheck.excluded THEN "excluded"
                           ELSE IF env.statOk THEN "files"
                           ELSE "none"]
    /\ UNCHANGED <<env, lockVars, runVars, schedVars, discVars>>

\* buildFFmpegArgs (part_001:60-82) for the first job of a run, when
\* getEncodingProfile (part_001:33-54) has no cached profile and calls
\* createEncodingProfile: the profile and the argument list.
CallBuildFFmpegArgs ==
    /\ cpc = "call"
    /\ env.op = "buildFFmpegArgs"
    /\ cpc' = "done"
    /\ LET file == env.file
           targetHeight == IF file.targetHeight # 0 THEN file.targetHeight
                           ELSE file.height
           bitrateOverride == file.overrides.bitrate
           profile == createEncodingProfile(env.config, targetHeight,
                                            bitrateOverride, env.detected)
           needsScale == file.targetWidth # file.width
                         \/ file.targetHeight # file.height
           targetWidth == IF needsScale THEN file.targetWidth ELSE 0
           targetHeightForScale == IF needsScale THEN file.targetHeight ELSE 0
       IN ret' = [profile |-> profile,
                  args |-> buildFFmpegArgsFromProfile(profile, env.inputPath,
                               env.outputPath, targetWidth, targetHeightForScale)]
    /\ UNCHANGED <<env, lockVars, runVars, schedVars, discVars>>

\* The load of the Job Store (main.ts:185) or of the Analysis Cache: what the
\* function returns, or the error it throws to its caller.
CallLoadDocument ==
    /\ cpc = "call"
    /\ env.op \in {"loadDatabase", "loadAnalysisDatabase"}
    /\ cpc' = "done"
    /\ ret' = IF env.op = "loadDatabase" THEN loadDatabase(env.file, env.now)
              ELSE loadAnalysisDatabase(env.file, env.now)
    /\ UNCHANGED <<env, lockVars, runVars, schedVars, discVars>>

CallNext ==
    \/ CallCalculateTargetResolution
    \/ CallAnalyzeFile
    \/ CallSetAnalysisRecord
    \/ CallGetCachedAnalysis
    \/ CallFilterByDatabaseState
    \/ CallCheckExclusions
    \/ CallBuildFFmpegArgs
    \/ CallLoadDocument

SpecCall == CallInit /\ [][CallNext]_vars

\* The ceiling that applies to a tv or movie input: the per-item override
\* when one is supplied, otherwise the ceiling of the media type.
ApplicableCeiling ==
    IF env.maxHeight # NoOverride THEN env.maxHeight
    ELSE IF env.mediaType = "tv" THEN env.config.tvMaxHeight
    ELSE env.config.movieMaxHeight

\* C21: calculateTargetResolution returns null when the source height is at
\* most the applicable ceiling; otherwise the returned height is the ceiling
\* and the returned width is the aspect-preserving width
\* ceiling * width / height rounded down to an even number, not greater than
\* the source width.
C21_TargetResolution ==
    (cpc = "done" /\ env.op = "calculateTargetResolution" /\ env.mediaType # "other")
        => /\ env.height <= ApplicableCeiling => ret = Null
           /\ env.height > ApplicableCeiling =>
                /\ ret.height = ApplicableCeiling
                /\ ret.height < env.height
                /\ ret.width = 2 * ((ApplicableCeiling * env.width) \div (2 * env.height))
                /\ ret.width <= env.width

\* C22: for an input of media type 'other', calculateTargetResolution
\* returns null whether or not a max-height override is supplied.
C22_OtherNeverScaled ==
    (cpc = "done" /\ env.op = "calculateTargetResolution" /\ env.mediaType = "other")
        => ret = Null

\* The codec names of the target (HEVC) family among the probed codecs.
HevcFamily ==
    {<<"h", "e", "v", "c">>, <<"H", "E", "V", "C">>, <<"H", "2", "6", "5">>}

\* analyzeFile returned a MediaFile.
Analyzed ==
    /\ cpc = "done"
    /\ env.op = "analyzeFile"
    /\ ~env.probe.throws
    /\ env.probe.video # NoVideo

\* C23: for an analyzed file with a video stream, needsTranscode is true
\* exactly when the source codec is outside the HEVC family or a target
\* resolution was computed; a file that does not need the transcode carries
\* the 'Already HEVC' reason and is not put on the list to transcode; and
\* the 1080p H.264 file /media/Show/S01E01.mkv with tvMaxHeight = 720 is
\* classified tv, gets target height 720 and needsTranscode.
C23_NeedsTranscode ==
    Analyzed =>
        LET file == ret.result.file
        IN /\ file.needsTranscode
                <=> (file.codec \notin HevcFamily \/ file.targetHeight # file.height)
           /\ ~file.needsTranscode =>
                /\ ret.result.skipped
                /\ ret.result.skipReason = <<"Already HEVC at", file.height>>
                /\ ret.list = "skipped"
           /\ file.needsTranscode => ret.list = "toTranscode"
           /\ (/\ env.path = ShowEpisode
               /\ file.codec = H264
               /\ file.height = 1080
               /\ env.config.tvMaxHeight = 720
               /\ env.maxHeight = NoOverride)
                => file.type = "tv" /\ file.targetHeight = 720 /\ file.needsTranscode

\* An HEVC file above its ceiling was analyzed: the codec is in the family
\* and the scaling alone makes the transcode necessary.
C23_Witness ==
    /\ Analyzed
    /\ env.path = ShowEpisode
    /\ env.probe.video.codec_name \in HevcFamily
    /\ env.probe.video.height = 1080
    /\ env.config.tvMaxHeight = 720
    /\ env.maxHeight = NoOverride
    /\ ret.result.file.needsTranscode
    /\ ret.result.file.targetHeight = 720

\* The record setAnalysisRecord stored for the path that is looked up.
StoredRecord == env.records[env.filePath]

HasSuccessRecord(f) == env.db.records[f].present /\ env.db.records[f].success

\* The store holds an error record for file f with at least 3 attempts.
HasThreeStrikes(f) == env.db.errors[f] >= 3

\* C25: filterByDatabaseState puts every discovered file in exactly one of
\* toAnalyze, alreadyDone and tooManyErrors: alreadyDone iff the store holds
\* a success record for its path, otherwise tooManyErrors iff an error record
\* with attempts >= 3 exists, otherwise toAnalyze; each list keeps the
\* discovery order.
C25_FilterPartitions ==
    (cpc = "done" /\ env.op = "filterByDatabaseState") =>
        /\ ret.alreadyDone = SelectSeq(env.files, HasSuccessRecord)
        /\ ret.tooManyErrors =
              SelectSeq(env.files, LAMBDA f : ~HasSuccessRecord(f) /\ HasThreeStrikes(f))
        /\ ret.toAnalyze =
              SelectSeq(env.files, LAMBDA f : ~HasSuccessRecord(f) /\ ~HasThreeStrikes(f))
        /\ Len(ret.alreadyDone) + Len(ret.tooManyErrors) + Len(ret.toAnalyze)
              = Len(env.files)

\* Three files were filtered, one of each kind, the one to analyse carrying
\* an error record below the limit and a record with success = false.
C25_Witness ==
    /\ cpc = "done"
    /\ env.op = "filterByDatabaseState"
    /\ Len(ret.alreadyDone) = 1
    /\ Len(ret.tooManyErrors) = 1
    /\ Len(ret.toAnalyze) = 1
    /\ env.db.errors[ret.toAnalyze[1]] = 2
    /\ env.db.records[ret.toAnalyze[1]].present
    /\ env.db.errors[ret.alreadyDone[1]] = 3

\* The rules of the configuration in the order the claim fixes: directory
\* names, path substrings, full-path patterns, file-name patterns.
RulesInOrder ==
    LET Tag(kind, rules) == [i \in 1..Len(rules) |-> [kind |-> kind, rule |-> rules[i]]]
    IN Tag("Directory excluded", env.exclusions.directories)
       \o Tag("Path contains", env.exclusions.pathContains)
       \o Tag("Path matches pattern", env.exclusions.pathPatterns)
       \o Tag("Filename matches pattern", env.exclusions.filePatterns)

\* Rule r matches the path of the call; an invalid pattern matches nothing.
RuleMatches(r) ==
    LET segments == Split(ToLower(env.path))
        name == segments[Len(segments)]
    IN CASE r.kind = "Directory excluded" ->
              \E i \in 1..Len(segments) : segments[i] = ToLower(r.rule)
         [] r.kind = "Path contains" -> Contains(ToLower(env.path), ToLower(r.rule))
         [] r.kind = "Path matches pattern" ->
              r.rule.valid /\ Contains(ToLower(env.path), ToLower(r.rule.source))
         [] r.kind = "Filename matches pattern" ->
              r.rule.valid /\ Contains(name, ToLower(r.rule.source))

\* The text of rule r as the reason quotes it.
RuleText(r) ==
    IF r.kind \in {"Directory excluded", "Path contains"} THEN r.rule ELSE r.rule.source

\* C26: checkExclusions returns excluded with the reason of the first rule,
\* in the order directories, path substrings, path patterns, file-name
\* patterns, that matches; invalid patterns are skipped and hide no later
\* rule; a path matching no rule is not excluded; and an entry that
\* discovery accepts is not excluded by checkExclusions.
C26_FirstMatchingRule ==
    (cpc = "done" /\ env.op = "checkExclusions") =>
        LET matching == SelectSeq(RulesInOrder, RuleMatches)
        IN /\ matching = <<>> => ret.check = NotExcluded
           /\ matching # <<>> =>
                /\ ret.check.excluded
                /\ ret.check.reason = <<matching[1].kind, RuleText(matching[1])>>
           /\ ret.list = "files" => matching = <<>>

\* The first full-path pattern was invalid, no directory or substring rule
\* matched, and a later file-name pattern excluded the file.
C26_Witness ==
    /\ cpc = "done"
    /\ env.op = "checkExclusions"
    /\ Len(env.exclusions.directories) > 0
    /\ Len(env.exclusions.pathContains) > 0
    /\ Len(env.exclusions.pathPatterns) > 0
    /\ ~env.exclusions.pathPatterns[1].valid
    /\ Len(env.exclusions.filePatterns) = 2
    /\ ~env.exclusions.filePatterns[1].valid
    /\ ret.check.excluded
    /\ ret.check.reason[1] = "Filename matches pattern"
    /\ ret.list = "excluded"

\* C27: in dry-run mode a run makes no changes: no encoder process is spawned
\* (no job leaves "idle"), no media file is renamed, replaced or removed, no
\* TranscodeRecord or ErrorRecord is added, the Job Store file is not written,
\* and the lock acquired for the run is released before exit.
C27_DryRunChangesNothing ==
    [][cfg.dryRun =>
         /\ job'.pc = "idle"
         /\ fs' = fs
         /\ \A f \in Files :
              /\ db'.records[f].present =>
                    (db.records[f].present \/ disk.records[f].present)
              /\ (db'.errors[f] > db.errors[f]) => db'.errors[f] = disk.errors[f]
         /\ disk' = disk
         /\ hist'.op \notin {"clear", "save", "result"}
         /\ (rpc' = "idle" => ~locked')]_vars

\* The state of the job pipeline of spec section "States", read off the
\* position of transcodeFile and the result it returns.
JobState(j) ==
    CASE j.pc = "idle" -> "Pending"
      [] j.pc = "encode" -> "Encoding"
      [] j.pc = "verify" -> "Verifying"
      [] j.pc \in {"backup", "move", "copy", "rmsrc", "rmbackup"} -> "Committing"
      [] j.pc \in {"restore", "catch"} -> "Failing"
      [] j.pc = "return" /\ j.result = "committed" -> "Committed"
      [] j.pc = "return" /\ j.result = "reverted" -> "Reverted"
      [] j.pc = "return" /\ j.result = "failed" -> "Failed"
      [] OTHER -> "Unknown"

\* The moves of a job between its states: the steps of a commit and of the
\* error path are inside Committing and Failing; a terminal state is left
\* only when the result is handed to processFile.
JobMoves ==
    {<<"Pending", "Encoding">>, <<"Encoding", "Verifying">>,
     <<"Encoding", "Failing">>, <<"Verifying", "Reverted">>,
     <<"Verifying", "Committing">>, <<"Committing", "Committing">>,
     <<"Committing", "Committed">>, <<"Committing", "Failing">>,
     <<"Failing", "Failing">>, <<"Failing", "Failed">>,
     <<"Committed", "Pending">>, <<"Reverted", "Pending">>,
     <<"Failed", "Pending">>}

ArgsBuilt == cpc = "done" /\ env.op = "buildFFmpegArgs"

\* C29: for each of the named hardware profiles (rockchip, nvidia, software,
\* and what 'auto' resolves to), the bitrate createEncodingProfile uses is the
\* per-job override when one is supplied, otherwise the table entry for the
\* target height (<= 720 low, <= 1080 medium, above high), and the profile's
\* rate-control flags carry that bitrate.
C29_ResolvedBitrate ==
    ArgsBuilt =>
        LET height == env.file.targetHeight
            table == env.config.bitrates
            resolved == IF env.file.overrides.bitrate # Undefined
                        THEN env.file.overrides.bitrate
                        ELSE IF height <= 720 THEN table.low
                        ELSE IF height <= 1080 THEN table.medium
                        ELSE table.high
            flags == ret.profile.encoder.bitrateArgs \o ret.profile.encoder.qualityArgs
        IN \E i \in 1..Len(flags) : flags[i] = BitrateText(resolved)

\* C30: for every hardware profile buildFFmpegArgsFromProfile emits, in this
\* order, the hardware input-acceleration flags, '-i' and the input path,
\* '-c:v' and the encoder, the scaler filter, the bitrate flags, the quality
\* flags, '-c:a copy', '-c:s copy', '-map 0', '-y' and the output path last;
\* the copy, map and overwrite arguments are always there, and the scaler
\* filter is there exactly when the job's target dimensions differ from the
\* source dimensions.
C30_ArgumentOrder ==
    ArgsBuilt =>
        LET p == ret.profile
            args == ret.args
            differs == env.file.targetWidth # env.file.width
                       \/ env.file.targetHeight # env.file.height
            hw == (IF p.hwAccelInput.hwaccel # ""
                   THEN <<"-hwaccel", p.hwAccelInput.hwaccel>> ELSE <<>>)
                  \o (IF p.hwAccelInput.hwaccelOutputFormat # ""
                      THEN <<"-hwaccel_output_format", p.hwAccelInput.hwaccelOutputFormat>>
                      ELSE <<>>)
                  \o p.hwAccelInput.extraInputArgs
            head == hw \o <<"-i", env.inputPath, "-c:v", p.encoder.encoder>>
            tail == p.encoder.bitrateArgs \o p.encoder.qualityArgs
                    \o <<"-c:a", "copy", "-c:s", "copy", "-map", "0", "-y",
                         env.outputPath>>
            scaled == Len(args) = Len(head) + 2 + Len(tail)
        IN /\ Len(args) \in {Len(head) + Len(tail), Len(head) + 2 + Len(tail)}
           /\ SubSeq(args, 1, Len(head)) = head
           /\ SubSeq(args, Len(args) - Len(tail) + 1, Len(args)) = tail
           /\ scaled => args[Len(head) + 1] = "-vf"
           /\ scaled <=> differs
           /\ \A i \in 1..Len(args) : args[i] = "-vf" => (scaled /\ i = Len(head) + 1)

\* C30 witnesses: the arguments of an NVENC job that is scaled down, the
\* filter between the encoder and the bitrate flags.
C30_Witness ==
    /\ ArgsBuilt
    /\ ret.profile.name = "nvidia"
    /\ env.file.targetHeight # env.file.height
    /\ \E i \in 1..Len(ret.args) - 3 :
          /\ ret.args[i] = "hevc_nvenc"
          /\ ret.args[i + 1] = "-vf"
          /\ ret.args[i + 2] = "scale_cuda=1280:720"
          /\ ret.args[i + 3] = "-b:v"

\* C31: the cached profile is reused only while target height and bitrate
\* override equal those it was built for: under every interleaving of
\* concurrently running jobs, the profile getEncodingProfile returns to a job
\* is the one createEncodingProfile builds for that job's own target height
\* and bitrate override, and a cached profile is the one built for the
\* cached height and bitrate.
C31_ProfileOfOwnJob ==
    /\ \A j \in ProfileJobs :
          cpc[j] = "returned" =>
              ret[j] = createEncodingProfile(env.config, env.jobs[j].targetHeight,
                                             env.jobs[j].bitrateOverride, env.detected)
    /\ env.cachedProfile # NoProfile =>
          env.cachedProfile = createEncodingProfile(env.config, env.cachedProfileHeight,
                                                    env.cachedProfileBitrate, env.detected)

\* C31 witnesses: two jobs with different targets got different profiles and
\* a third job, with the targets of the second, got the cached profile of the
\* second.
C31_Witness ==
    /\ \A j \in ProfileJobs : cpc[j] = "returned"
    /\ env.jobs[1] # env.jobs[2]
    /\ env.jobs[3] = env.jobs[2]
    /\ env.cachedProfileHeight = env.jobs[2].targetHeight
    /\ ret[1] # ret[2]
    /\ ret[3] = ret[2]

\* A load has returned or thrown.
LoadDone == cpc = "done" /\ env.op \in {"loadDatabase", "loadAnalysisDatabase"}

\* C32: loading a Job Store document whose version differs from the current
\* one keeps every TranscodeRecord and ErrorRecord and changes only the
\* version, to the current one; loading an Analysis Cache document whose
\* version differs yields an empty cache; a missing file of either kind
\* yields an empty document; any other read or parse error is thrown to the
\* caller.
C32_LoadDocument ==
    LoadDone =>
        LET file == env.file
            document == file.document
            readable == file.exists /\ ~file.readError /\ file.parses
            current == IF env.op = "loadDatabase" THEN DATABASE_VERSION
                       ELSE ANALYSIS_VERSION
        IN /\ (readable /\ document.version # current /\ env.op = "loadDatabase") =>
                /\ ret.threw = ""
                /\ ret.db.records = document.records
                /\ ret.db.errors = document.errors
                /\ ret.db.version = DATABASE_VERSION
                /\ ret.db = [document EXCEPT !.version = DATABASE_VERSION]
           /\ (readable /\ document.version # current
                        /\ env.op = "loadAnalysisDatabase") =>
                /\ ret.threw = ""
                /\ ret.db.records = {}
                /\ ret.db.version = ANALYSIS_VERSION
           /\ (readable /\ document.version = current) =>
                (ret.threw = "" /\ ret.db = document)
           /\ ~file.exists =>
                /\ ret.threw = ""
                /\ ret.db.records = {}
                /\ ret.db.version = current
                /\ env.op = "loadDatabase" => ret.db.errors = <<>>
           /\ (file.exists /\ (file.readError \/ ~file.parses)) => ret.threw # ""

\* C32 witnesses: a Job Store document of an older version with a success
\* record and a failed attempt was loaded.
C32_Witness ==
    /\ LoadDone
    /\ env.op = "loadDatabase"
    /\ env.file.exists /\ ~env.file.readError /\ env.file.parses
    /\ env.file.document.version = 0
    /\ env.file.document.records = {1}
    /\ env.file.document.errors[3] = 2
    /\ ret.db.version = 1
    /\ ret.db.records = {1}

\* C33: when a run crashes between checkpoints and the program is run again,
\* the re-run is idempotent: a path whose success record was persisted is
\* not processed again, a file that was already replaced in place is not
\* encoded or replaced a second time, and when the re-run has completed the
\* Job Store holds a success record for every path the uninterrupted run
\* would have recorded as successful, among them every path that (without
\* any I/O fault) holds the output committed in place.
C33_RerunIdempotent ==
    /\ job.pc # "idle" => ~isFileTranscoded(hist.loaded, job.file)
    /\ (shouldOutputInPlace(cfg) /\ job.pc = "encode") => fs[job.path].kind # "new"
    /\ (rpc = "idle" /\ runs = CrashRuns /\ hist.op \in {"save", "scan"}
            /\ faultsLeft = RunFaults) =>
          \A f \in 1..RunFiles :
              (shouldOutputInPlace(cfg) /\ fs[FilePath(f)].kind = "new") =>
                  isFileTranscoded(disk, f)

\* C34: with maxConcurrency >= 1 and every encoder invocation terminating,
\* runWithConcurrency eventually completes (main() is past its await); every
\* job causes at most one Job Store update, made in the step in which its
\* pipeline ends (its encode or its verification and commit), as a success
\* record or as a failed attempt; at normal run end every scheduled job has
\* its update and the store persisted by the final save contains all of them.
C34_OneUpdatePerJob ==
    /\ <>(spc \in {"save", "exited"})
    /\ [][\A k \in Tasks :
            store'[k] # store[k] =>
                /\ store[k] = NoOutcome
                /\ store'[k] \in {"record", "error"}
                /\ tpc[k] \in {"encode", "verify"}
                /\ tpc'[k] \in {"checkpoint", "done"}]_vars
    /\ []((spc = "exited" /\ exitCode = 0 /\ ~signalled) =>
            /\ \A k \in 1..Len(items) : store[k] \in {"record", "error"}
            /\ saved = store)

\* C34 witnesses: a run with two jobs in flight together ended normally with
\* a success record and a failed attempt persisted.
C34_Witness ==
    /\ spc = "exited" /\ exitCode = 0 /\ ~signalled
    /\ maxConcurrency >= 2
    /\ \E j, k \in 1..Len(items) : saved[j] = "record" /\ saved[k] = "error"

\* C35: every execution that acquired the lock has released it (unlocked and
\* removed the lock file) when the process ends, on each exit path:
\* list-errors, clear-errors, nothing to transcode, dry run, normal
\* completion, fatal error and termination signal; and a releaseLock called
\* when the lock has been released already does nothing.
C35_LockReleasedOnExit ==
    /\ [](ret # Running => (~env.flock /\ ~env.file))
    /\ [][\A c \in Flows :
            (cpc[c] = "release" /\ cpc'[c] \in {"unlock", "released"} /\ env.lockFile = "null") =>
                (env' = env /\ cpc'[c] = "released")]_vars

\* C36: after any sequence of runs from an empty Job Store, with clear-errors
\* at arbitrary points between the runs, every ErrorRecord of the store has
\* 1 <= attempts <= 3, and one run increases the attempts of a path by at
\* most 1.
C36_AttemptsBounded ==
    \A f \in Files :
        /\ db.errors[f] \in 0..MaxAttempts
        /\ disk.errors[f] \in 0..MaxAttempts
        /\ rpc # "idle" =>
            /\ db.errors[f] <= hist.loaded.errors[f] + 1
            /\ disk.errors[f] <= hist.loaded.errors[f] + 1

\* The TranscodeRecords of a store document.
RecordsOf(d) == {d.records[f] : f \in {g \in Files : d.records[g].present}}

Writing == {k \in Tasks : tpc[k] = "write"}

\* C38: checkpoint writes of the Job Store file never overlap: for every
\* maxConcurrency and completion order at most one saveDatabase write to the
\* store path is in flight at a time, and a snapshot taken earlier never
\* overwrites a snapshot taken later (an outcome that is in the file stays in
\* the file).
C38_NoOverlappingWrites ==
    /\ [](Cardinality(Writing) <= 1)
    /\ [][\A k \in Tasks : saved[k] # NoOutcome => saved'[k] = saved[k]]_vars
====
